---------------------------- MODULE Spec2Model ----------------------------
(***************************************************************************)
(* Code-comprehension workflow: the LangGraph state machine of             *)
(* src/graph.py (code_ingestion -> conditional -> architect -> END), the   *)
(* ingestion node with the repository Walker, dependency discovery and     *)
(* the analysis completion call, and the architect node.                   *)
(*                                                                         *)
(* Conventions.  Python's Optional[T] is a sequence of length at most one: *)
(* None is <<>> and a value v is <<v>>.  A path or glob pattern is the     *)
(* tuple of its characters, so that fnmatch is computed character by       *)
(* character.  Message contents and error strings are tuples of text       *)
(* fragments in the order the f-string concatenates them.                  *)
(*                                                                         *)
(* get_github_service() and get_code_ingestion_llm() / get_architect_llm() *)
(* are taken to return: the process is configured with its credentials.    *)
(*                                                                         *)
(* The API of src/api.py keeps its jobs in a dict; every job has a         *)
(* run_comprehension_job task that drives its own run of the graph and     *)
(* interleaves with the request handlers at its await points.              *)
(***************************************************************************)
EXTENDS Integers, Sequences, FiniteSets, TLC

VARIABLES
    state,      \* the AgentState held by the graph runner's channels
    pc,         \* position of the run in the graph
    update,     \* Optional: the update returned by the node that just ran
    route,      \* last decision of the conditional edge
    executed,   \* nodes that have run, in order
    calls,      \* calls made to the two external capabilities, in order
    walked,     \* FileInfo sequence the Walker yielded in this run
    repo,       \* the remote repository the source-control capability serves
    next_id,    \* source of fresh message ids (uuid4 in add_messages)
    jobs,       \* api.jobs: the in-memory job registry, job id -> job dict
    tasks,      \* the run_comprehension_job task of every job created so far
    response    \* Optional: the last HTTP response the API returned

vars == <<state, pc, update, route, executed, calls, walked, repo, next_id,
          jobs, tasks, response>>

-----------------------------------------------------------------------------
(* Optional values and small sequence helpers                              *)

None == <<>>

Some(v) == <<v>>

\* mutant: "is not None" in place of truthiness
Truthy_is_not_none(opt) == opt # None

Truthy(opt) == opt # None /\ opt # Some(<<>>)

RECURSIVE SumSizes(_)
SumSizes(files) ==
    IF files = <<>> THEN 0 ELSE Head(files).size_bytes + SumSizes(Tail(files))

Contains(text, fragment) == \E i \in DOMAIN text : text[i] = fragment

Occurrences(seq, x) == Cardinality({i \in DOMAIN seq : seq[i] = x})

IsPrefix(s, t) == Len(s) <= Len(t) /\ SubSeq(t, 1, Len(s)) = s

-----------------------------------------------------------------------------
(* fnmatch.fnmatch on POSIX for patterns made of literals and "*"          *)

RECURSIVE fnmatch(_, _)
fnmatch(name, pat) ==
    IF pat = <<>> THEN name = <<>>
    ELSE IF Head(pat) = "*"
         THEN fnmatch(name, Tail(pat))
              \/ (name # <<>> /\ fnmatch(Tail(name), pat))
         ELSE name # <<>> /\ Head(name) = Head(pat)
              /\ fnmatch(Tail(name), Tail(pat))

\* path.split("/")[-1]
RECURSIVE LastSegment(_)
LastSegment(path) ==
    IF \A i \in DOMAIN path : path[i] # "/" THEN path
    ELSE LastSegment(Tail(path))

EndsWith(path, ext) ==
    Len(path) >= Len(ext)
    /\ SubSeq(path, Len(path) - Len(ext) + 1, Len(path)) = ext

FILE_CLASSIFICATIONS ==
  <<
    [classification |-> "code", patterns |-> <<
        <<"*",".","p","y">>,
        <<"*",".","j","s">>,
        <<"*",".","t","s">>,
        <<"*",".","j","s","x">>,
        <<"*",".","t","s","x">>,
        <<"*",".","j","a","v","a">>,
        <<"*",".","c","s">>,
        <<"*",".","g","o">>,
        <<"*",".","r","s">>,
        <<"*",".","c","p","p">>,
        <<"*",".","c">>,
        <<"*",".","h">>,
        <<"*",".","h","p","p">>,
        <<"*",".","r","b">>,
        <<"*",".","p","h","p">>,
        <<"*",".","s","w","i","f","t">>,
        <<"*",".","k","t">>,
        <<"*",".","s","c","a","l","a">>,
        <<"*",".","c","l","j">>,
        <<"*",".","e","x">>,
        <<"*",".","e","x","s">> >>],
    [classification |-> "config", patterns |-> <<
        <<"*",".","j","s","o","n">>,
        <<"*",".","y","a","m","l">>,
        <<"*",".","y","m","l">>,
        <<"*",".","t","o","m","l">>,
        <<"*",".","i","n","i">>,
        <<"*",".","c","f","g">>,
        <<"*",".","c","o","n","f">>,
        <<"*",".","p","r","o","p","e","r","t","i","e","s">>,
        <<"*",".","x","m","l">>,
        <<".","e","n","v","*">>,
        <<"*",".","c","o","n","f","i","g">> >>],
    [classification |-> "docs", patterns |-> <<
        <<"*",".","m","d">>,
        <<"*",".","r","s","t">>,
        <<"*",".","t","x","t">>,
        <<"*",".","a","d","o","c">>,
        <<"*",".","a","s","c","i","i","d","o","c">>,
        <<"R","E","A","D","M","E","*">>,
        <<"C","H","A","N","G","E","L","O","G","*">>,
        <<"C","O","N","T","R","I","B","U","T","I","N","G","*">>,
        <<"L","I","C","E","N","S","E","*">> >>],
    [classification |-> "iac", patterns |-> <<
        <<"*",".","t","f">>,
        <<"*",".","t","f","v","a","r","s">>,
        <<"*",".","b","i","c","e","p">>,
        <<"*",".","a","r","m",".","j","s","o","n">>,
        <<"*","c","l","o","u","d","f","o","r","m","a","t","i","o","n","*",".","j","s","o","n">>,
        <<"*","c","l","o","u","d","f","o","r","m","a","t","i","o","n","*",".","y","a","m","l">>,
        <<"*",".","p","u","l","u","m","i",".","*">>,
        <<"P","u","l","u","m","i",".","y","a","m","l">>,
        <<"c","d","k",".","j","s","o","n">> >>],
    [classification |-> "cicd", patterns |-> <<
        <<".","g","i","t","h","u","b","/","w","o","r","k","f","l","o","w","s","/","*",".","y","m","l">>,
        <<".","g","i","t","h","u","b","/","w","o","r","k","f","l","o","w","s","/","*",".","y","a","m","l">>,
        <<".","g","i","t","l","a","b","-","c","i",".","y","m","l">>,
        <<"J","e","n","k","i","n","s","f","i","l","e","*">>,
        <<"a","z","u","r","e","-","p","i","p","e","l","i","n","e","s","*",".","y","m","l">>,
        <<".","c","i","r","c","l","e","c","i","/","*">>,
        <<".","t","r","a","v","i","s",".","y","m","l">>,
        <<"b","i","t","b","u","c","k","e","t","-","p","i","p","e","l","i","n","e","s",".","y","m","l">>,
        <<"*",".","D","o","c","k","e","r","f","i","l","e">>,
        <<"D","o","c","k","e","r","f","i","l","e","*">>,
        <<"d","o","c","k","e","r","-","c","o","m","p","o","s","e","*",".","y","m","l">> >>],
    [classification |-> "tests", patterns |-> <<
        <<"*","t","e","s","t","*",".","p","y">>,
        <<"*","_","t","e","s","t",".","p","y">>,
        <<"t","e","s","t","_","*",".","p","y">>,
        <<"*","_","t","e","s","t",".","g","o">>,
        <<"*","T","e","s","t",".","j","a","v","a">>,
        <<"*","_","t","e","s","t",".","t","s">>,
        <<"*",".","s","p","e","c",".","t","s">>,
        <<"*",".","t","e","s","t",".","t","s">>,
        <<"*",".","s","p","e","c",".","j","s">>,
        <<"*",".","t","e","s","t",".","j","s">>,
        <<"*","_","s","p","e","c",".","r","b">> >>]
  >>

DEPENDENCY_FILES ==
  <<
    [pkg_manager |-> "npm", patterns |-> <<
        <<"p","a","c","k","a","g","e",".","j","s","o","n">>,
        <<"p","a","c","k","a","g","e","-","l","o","c","k",".","j","s","o","n">>,
        <<"y","a","r","n",".","l","o","c","k">>,
        <<"p","n","p","m","-","l","o","c","k",".","y","a","m","l">> >>],
    [pkg_manager |-> "pip", patterns |-> <<
        <<"r","e","q","u","i","r","e","m","e","n","t","s",".","t","x","t">>,
        <<"r","e","q","u","i","r","e","m","e","n","t","s","*",".","t","x","t">>,
        <<"P","i","p","f","i","l","e">>,
        <<"P","i","p","f","i","l","e",".","l","o","c","k">>,
        <<"p","y","p","r","o","j","e","c","t",".","t","o","m","l">>,
        <<"s","e","t","u","p",".","p","y">> >>],
    [pkg_manager |-> "maven", patterns |-> <<
        <<"p","o","m",".","x","m","l">> >>],
    [pkg_manager |-> "gradle", patterns |-> <<
        <<"b","u","i","l","d",".","g","r","a","d","l","e">>,
        <<"b","u","i","l","d",".","g","r","a","d","l","e",".","k","t","s">>,
        <<"s","e","t","t","i","n","g","s",".","g","r","a","d","l","e">>,
        <<"s","e","t","t","i","n","g","s",".","g","r","a","d","l","e",".","k","t","s">> >>],
    [pkg_manager |-> "cargo", patterns |-> <<
        <<"C","a","r","g","o",".","t","o","m","l">>,
        <<"C","a","r","g","o",".","l","o","c","k">> >>],
    [pkg_manager |-> "go", patterns |-> <<
        <<"g","o",".","m","o","d">>,
        <<"g","o",".","s","u","m">> >>],
    [pkg_manager |-> "dotnet", patterns |-> <<
        <<"*",".","c","s","p","r","o","j">>,
        <<"*",".","f","s","p","r","o","j">>,
        <<"*",".","v","b","p","r","o","j">>,
        <<"p","a","c","k","a","g","e","s",".","c","o","n","f","i","g">>,
        <<"*",".","s","l","n">> >>],
    [pkg_manager |-> "bundler", patterns |-> <<
        <<"G","e","m","f","i","l","e">>,
        <<"G","e","m","f","i","l","e",".","l","o","c","k">> >>],
    [pkg_manager |-> "composer", patterns |-> <<
        <<"c","o","m","p","o","s","e","r",".","j","s","o","n">>,
        <<"c","o","m","p","o","s","e","r",".","l","o","c","k">> >>]
  >>

DefaultExcludeGlobs ==
  << <<"*","*","/","*",".","p","e","m">>,
     <<"*","*","/","*",".","k","e","y">>,
     <<"*","*","/",".","e","n","v">>,
     <<"d","i","s","t","/","*","*">>,
     <<"b","u","i","l","d","/","*","*">>,
     <<"n","o","d","e","_","m","o","d","u","l","e","s","/","*","*">>,
     <<"*","*","/","*",".","j","a","r">>,
     <<"*","*","/","*",".","z","i","p">>,
     <<"*","*","/","*",".","p","d","f">> >>

\* first (classification, pattern) in table order that matches the path or
\* its last segment
RECURSIVE FirstMatch(_, _)
FirstMatch(table, path) ==
    IF table = <<>> THEN None
    ELSE IF \E i \in DOMAIN Head(table).patterns :
               \/ fnmatch(path, Head(table).patterns[i])
               \/ fnmatch(LastSegment(path), Head(table).patterns[i])
         THEN Some(Head(table).classification)
         ELSE FirstMatch(Tail(table), path)

\* mutant: patterns are matched against the full path only
classify_file_full_path(path) ==
    LET hit == {k \in DOMAIN FILE_CLASSIFICATIONS :
                   \E i \in DOMAIN FILE_CLASSIFICATIONS[k].patterns :
                      fnmatch(path, FILE_CLASSIFICATIONS[k].patterns[i])}
    IN  IF hit = {} THEN None
        ELSE Some(FILE_CLASSIFICATIONS[CHOOSE k \in hit : \A j \in hit : k <= j]
                     .classification)

\* mutant: the loop does not return at the first match, the last one wins
classify_file_last_match(path) ==
    LET hit == {k \in DOMAIN FILE_CLASSIFICATIONS :
                   \E i \in DOMAIN FILE_CLASSIFICATIONS[k].patterns :
                      \/ fnmatch(path, FILE_CLASSIFICATIONS[k].patterns[i])
                      \/ fnmatch(LastSegment(path),
                                 FILE_CLASSIFICATIONS[k].patterns[i])}
    IN  IF hit = {} THEN None
        ELSE Some(FILE_CLASSIFICATIONS[CHOOSE k \in hit : \A j \in hit : k >= j]
                     .classification)

classify_file(path) == FirstMatch(FILE_CLASSIFICATIONS, path)

should_exclude(path, policy) ==
    \E i \in DOMAIN policy.exclude_globs : fnmatch(path, policy.exclude_globs[i])

ext_map ==
    << [ext |-> <<".","p","y">>,             lang |-> "python"],
       [ext |-> <<".","j","s">>,             lang |-> "javascript"],
       [ext |-> <<".","t","s">>,             lang |-> "typescript"],
       [ext |-> <<".","j","s","x">>,         lang |-> "javascript"],
       [ext |-> <<".","t","s","x">>,         lang |-> "typescript"],
       [ext |-> <<".","j","a","v","a">>,     lang |-> "java"],
       [ext |-> <<".","c","s">>,             lang |-> "csharp"],
       [ext |-> <<".","g","o">>,             lang |-> "go"],
       [ext |-> <<".","r","s">>,             lang |-> "rust"],
       [ext |-> <<".","c","p","p">>,         lang |-> "cpp"],
       [ext |-> <<".","c">>,                 lang |-> "c"],
       [ext |-> <<".","r","b">>,             lang |-> "ruby"],
       [ext |-> <<".","p","h","p">>,         lang |-> "php"],
       [ext |-> <<".","s","w","i","f","t">>, lang |-> "swift"],
       [ext |-> <<".","k","t">>,             lang |-> "kotlin"],
       [ext |-> <<".","s","c","a","l","a">>, lang |-> "scala"] >>

RECURSIVE FirstExt(_, _)
FirstExt(table, path) ==
    IF table = <<>> THEN None
    ELSE IF EndsWith(path, Head(table).ext) THEN Some(Head(table).lang)
         ELSE FirstExt(Tail(table), path)

detect_language(path) == FirstExt(ext_map, path)

-----------------------------------------------------------------------------
(* Source-control capability: the remote repository                        *)

\* bound: a repository tree holds at most this many files
MaxTreeFiles == 3

\* IngestionPolicy() with the schema's defaults; include_tests is the input
IngestionPolicy(include_tests) ==
    [max_file_mb    |-> 2,
     exclude_globs  |-> DefaultExcludeGlobs,
     include_tests  |-> include_tests,
     redact_secrets |-> TRUE]

Root == <<>>

DirT == <<"t">>

\* ContentFile entries a repository may hold, in the order get_contents
\* lists them; parent is the directory whose listing returns the entry
CandidateFiles ==
    << [path |-> <<"a",".","p","y">>, parent |-> Root, type |-> "file",
        size |-> 1024, sha |-> "sha-a", content |-> <<>>],
       [path |-> <<"R","E","A","D","M","E",".","m","d">>, parent |-> Root,
        type |-> "file", size |-> 2048, sha |-> "sha-readme", content |-> <<>>],
       [path |-> <<"b","i","g",".","c">>, parent |-> Root, type |-> "file",
        size |-> 2 * 1024 * 1024 + 1, sha |-> "sha-big", content |-> <<>>],
       [path |-> <<"e","d","g","e",".","t","f">>, parent |-> Root, type |-> "file",
        size |-> 2 * 1024 * 1024, sha |-> "sha-edge", content |-> <<>>],
       [path |-> <<"D","o","c","k","e","r","f","i","l","e">>, parent |-> Root,
        type |-> "file", size |-> 300, sha |-> "sha-docker", content |-> <<>>],
       [path |-> <<"r","e","q","u","i","r","e","m","e","n","t","s",".","t","x","t">>,
        parent |-> Root, type |-> "file", size |-> 256, sha |-> "sha-req",
        content |-> << [kind |-> "req", name |-> "flask", version |-> <<"2",".","0">>],
                       [kind |-> "comment", name |-> "", version |-> <<>>],
                       [kind |-> "req", name |-> "requests", version |-> <<>>] >>],
       [path |-> <<"p","a","c","k","a","g","e",".","j","s","o","n">>,
        parent |-> Root, type |-> "file", size |-> 512, sha |-> "sha-pkg",
        content |-> << [kind |-> "dependencies", name |-> "react",
                        version |-> <<"^","1","8">>],
                       [kind |-> "dependencies", name |-> "requests",
                        version |-> <<">","=","2">>],
                       [kind |-> "devDependencies", name |-> "jest",
                        version |-> <<"~","2","9">>] >>],
       [path |-> <<"t","/","t","e","s","t","_","a",".","p","y">>, parent |-> DirT,
        type |-> "file", size |-> 768, sha |-> "sha-test", content |-> <<>>],
       [path |-> <<"t","/","k",".","p","e","m">>, parent |-> DirT,
        type |-> "file", size |-> 100, sha |-> "sha-pem", content |-> <<>>],
       [path |-> <<"t","/","n","o","t","e","s">>, parent |-> DirT,
        type |-> "file", size |-> 10, sha |-> "sha-notes", content |-> <<>>] >>

DirEntry ==
    [path |-> DirT, parent |-> Root, type |-> "dir", size |-> 0,
     sha |-> "sha-t", content |-> <<>>]

\* the tree made of the candidate files whose index is in chosen; the
\* directory entry is listed in the root iff one of its files is chosen,
\* after the first file of the root so that a sibling follows it
TreeOf(chosen) ==
    LET keep(e) == \E i \in chosen : CandidateFiles[i] = e
        files   == SelectSeq(CandidateFiles, keep)
        rootfs  == SelectSeq(files, LAMBDA e : e.parent = Root)
        subfs   == SelectSeq(files, LAMBDA e : e.parent = DirT)
    IN  IF subfs = <<>> THEN rootfs
        ELSE IF rootfs = <<>> THEN <<DirEntry>> \o subfs
        ELSE <<Head(rootfs), DirEntry>> \o Tail(rootfs) \o subfs

Trees ==
    {TreeOf(chosen) : chosen \in {c \in SUBSET DOMAIN CandidateFiles :
                                      Cardinality(c) <= MaxTreeFiles}}

\* outcomes of Github.get_repo for a well-formed URL
ResolveOutcomes == {"ok", "404", "403", "403 rate limit", "500"}

\* outcomes of repo.get_contents on a dependency file that exists: the
\* content, GithubException with a status other than 404, or an exception
\* of the transport
FetchOutcomes == {"ok", "403", "connection error"}

\* the repositories the capability may serve: a tree, the directories whose
\* listing raises, the outcome of fetching a dependency file, and the
\* outcome of resolving the repository
HasDirT(t) == \E i \in DOMAIN t : t[i].parent = DirT

HasManifest(t) == \E i \in DOMAIN t : t[i].content # <<>>

Repos ==
    {[resolve |-> "ok", tree |-> t, failing |-> f, fetch |-> "ok"] :
        t \in Trees, f \in {{}, {Root}}}
    \cup
    {[resolve |-> "ok", tree |-> t, failing |-> {DirT}, fetch |-> "ok"] :
        t \in {u \in Trees : HasDirT(u)}}
    \cup
    {[resolve |-> "ok", tree |-> t, failing |-> {}, fetch |-> o] :
        t \in {u \in Trees : HasManifest(u)}, o \in FetchOutcomes \ {"ok"}}
    \cup
    {[resolve |-> o, tree |-> <<>>, failing |-> {}, fetch |-> "ok"] :
        o \in ResolveOutcomes \ {"ok"}}

\* repo.get_contents(path, ref) on a directory: the entries it lists
get_contents(r, path) == SelectSeq(r.tree, LAMBDA e : e.parent = path)

\* mutant: the size gate is missing
Admitted_no_size_gate(content, policy, classification) ==
    /\ ~should_exclude(content.path, policy)
    /\ ~(classification = Some("tests") /\ ~policy.include_tests)

\* the three gates of list_files on a file entry, in source order;
\* classification is classify_file(content.path)
Admitted(content, policy, classification) ==
    /\ ~should_exclude(content.path, policy)
    /\ ~(content.size > policy.max_file_mb * 1024 * 1024)
    /\ ~(classification = Some("tests") /\ ~policy.include_tests)

FileInfo(content, classification) ==
    [path           |-> content.path,
     language       |-> detect_language(content.path),
     size_bytes     |-> content.size,
     classification |-> classification,
     checksum       |-> Some(content.sha)]

\* GitHubService.list_files: the FileInfo sequence the generator yields;
\* a listing that raises ends that (sub)walk with nothing yielded
RECURSIVE list_files(_, _, _)
RECURSIVE WalkEntries(_, _, _)
WalkEntries(r, contents, policy) ==
    IF contents = <<>> THEN <<>>
    ELSE LET content == Head(contents)
             classification == classify_file(content.path)
             here == IF content.type = "dir"
                     THEN list_files(r, content.path, policy)
                     ELSE IF Admitted(content, policy, classification)
                          THEN <<FileInfo(content, classification)>>
                          ELSE <<>>
         IN  here \o WalkEntries(r, Tail(contents), policy)

\* mutant: a listing that raises anywhere ends the whole walk with nothing
list_files_abort(r, path, policy) ==
    IF r.failing # {} THEN <<>>
    ELSE WalkEntries(r, get_contents(r, path), policy)

list_files(r, path, policy) ==
    IF path \in r.failing THEN <<>>
    ELSE WalkEntries(r, get_contents(r, path), policy)

\* repo.get_contents(pattern, ref) on a literal file name: the entries with
\* that path (none: the call raises GithubException)
FileAt(r, path) == SelectSeq(r.tree, LAMBDA e : e.path = path)

\* str.lstrip("^~>=<")
RECURSIVE lstrip_range(_)
lstrip_range(version) ==
    IF version # <<>> /\ Head(version) \in {"^", "~", ">", "=", "<"}
    THEN lstrip_range(Tail(version))
    ELSE version

DependencyInfo(name, version, package_manager, is_dev) ==
    [name |-> name, version |-> version, package_manager |-> package_manager,
     is_dev |-> is_dev, vulnerabilities |-> <<>>]

RequirementsTxt == <<"r","e","q","u","i","r","e","m","e","n","t","s",".","t","x","t">>

PackageJson == <<"p","a","c","k","a","g","e",".","j","s","o","n">>

RECURSIVE ParsePip(_)
ParsePip(lines) ==
    IF lines = <<>> THEN <<>>
    ELSE LET line == Head(lines)
         IN  (IF line.kind = "req"
              THEN <<DependencyInfo(line.name,
                                    IF line.version # <<>> THEN Some(line.version)
                                    ELSE None,
                                    "pip", FALSE)>>
              ELSE <<>>)
             \o ParsePip(Tail(lines))

RECURSIVE ParseNpm(_, _)
ParseNpm(members, section) ==
    IF members = <<>> THEN <<>>
    ELSE LET m == Head(members)
         IN  (IF m.kind = section
              THEN <<DependencyInfo(m.name, Some(lstrip_range(m.version)), "npm",
                                    section = "devDependencies")>>
              ELSE <<>>)
             \o ParseNpm(Tail(members), section)

parse_dependencies(content, pkg_manager, filename) ==
    IF pkg_manager = "pip" /\ filename = RequirementsTxt THEN ParsePip(content)
    ELSE IF pkg_manager = "npm" /\ filename = PackageJson
         THEN ParseNpm(content, "dependencies")
              \o ParseNpm(content, "devDependencies")
         ELSE <<>>

\* one candidate of the table: skipped when it is a glob, when the fetch
\* raises (GithubException of any status, or any other Exception), or when
\* the path is a directory
DepsOfCandidate(r, pkg_manager, pattern) ==
    IF Contains(pattern, "*") THEN <<>>
    ELSE LET found == FileAt(r, pattern)
         IN  IF found = <<>> \/ r.fetch # "ok" THEN <<>>
             ELSE IF found[1].type = "dir" THEN <<>>
                  ELSE parse_dependencies(found[1].content, pkg_manager, pattern)

RECURSIVE DepsOfPatterns(_, _, _)
DepsOfPatterns(r, pkg_manager, patterns) ==
    IF patterns = <<>> THEN <<>>
    ELSE DepsOfCandidate(r, pkg_manager, Head(patterns))
         \o DepsOfPatterns(r, pkg_manager, Tail(patterns))

RECURSIVE DepsOfTable(_, _)
\* mutant: a package manager none of whose candidates exists ends the
\* discovery
DepsOfTable_stop(r, table) ==
    IF table = <<>> THEN <<>>
    ELSE LET deps == DepsOfPatterns(r, Head(table).pkg_manager, Head(table).patterns)
         IN  IF deps = <<>> THEN <<>> ELSE deps \o DepsOfTable(r, Tail(table))

DepsOfTable(r, table) ==
    IF table = <<>> THEN <<>>
    ELSE DepsOfPatterns(r, Head(table).pkg_manager, Head(table).patterns)
         \o DepsOfTable(r, Tail(table))

discover_dependencies(r) == DepsOfTable(r, DEPENDENCY_FILES)

-----------------------------------------------------------------------------
(* Resolving the repository                                                *)

GithubUrl == <<"https:", "/", "/", "github.com", "/", "octo", "/", "app">>

OwnerOnlyUrl == <<"https:", "/", "/", "github.com", "/", "octo">>

OtherHostUrl == <<"https:", "/", "/", "example.org", "/", "octo", "/", "app">>

\* url.split("github.com")[-1]
RECURSIVE AfterHost(_)
AfterHost(url) ==
    IF Contains(url, "github.com") THEN AfterHost(Tail(url)) ELSE url

\* str.lstrip("/:")
RECURSIVE lstrip_sep(_)
lstrip_sep(frags) ==
    IF frags # <<>> /\ Head(frags) \in {"/", ":"} THEN lstrip_sep(Tail(frags))
    ELSE frags

\* len(parts) after split("/")
NumParts(url) == 1 + Occurrences(lstrip_sep(AfterHost(url)), "/")

Raised(kind, message) == [raised |-> TRUE, kind |-> kind, message |-> message]

Returned == [raised |-> FALSE, kind |-> "", message |-> <<>>]

\* GitHubService.get_repository: returns, or raises the exception whose
\* str() is message
get_repository(url, r) ==
    IF ~Contains(url, "github.com") \/ NumParts(url) < 2
    THEN Raised("InvalidRepositoryURLError",
                <<"Invalid GitHub repository URL: ">> \o url)
    ELSE CASE r.resolve = "ok"  -> Returned
           [] r.resolve = "404" ->
                Raised("RepositoryNotFoundError",
                       <<"Repository not found: ">> \o url)
           [] r.resolve = "403 rate limit" ->
                Raised("GitHubRateLimitError", <<"GitHub API rate limit exceeded">>)
           [] r.resolve = "403" ->
                Raised("RepositoryAccessDeniedError",
                       <<"Access denied to repository: ">> \o url
                       \o <<". Check your GitHub token permissions.">>)
           [] OTHER -> Raised("GithubException", <<r.resolve>>)

-----------------------------------------------------------------------------
(* Text-completion capability and the analysis it returns                  *)

\* A completion text is a tuple of fragments; "{" and "}" are the brace
\* characters, a fragment naming a key of JsonMembers is the member list of
\* a JSON object, any other fragment is free text.
JsonMembers ==
    [full |->
        [languages |-> <<"python">>, frameworks |-> <<"flask">>,
         build_systems |-> <<"pip">>,
         risks |-> << [id |-> "RISK-001", category |-> "security",
                       severity |-> "high", title |-> "Outdated dependency",
                       description |-> "known CVE",
                       remediation |-> "upgrade"],
                      [title |-> "Missing type hints"] >>],
     norisks |->
        [frameworks |-> <<"react">>],
     badseverity |->
        [languages |-> <<"python">>,
         risks |-> << [id |-> "RISK-001", severity |-> "urgent"] >>],
     business |->
        [executive_summary |-> "Modernise in two waves",
         options |-> << [id |-> "OPT-A", name |-> "Rehost", effort |-> "S",
                         risk_level |-> "low", recommended |-> TRUE],
                        [name |-> "Refactor"] >>],
     business_badeffort |->
        [executive_summary |-> "Modernise",
         options |-> << [id |-> "OPT-A", effort |-> "XXL"] >>],
     technical |->
        [codebase_map |-> "one service",
         risk_register |-> << [id |-> "RISK-001", severity |-> "high", effort |-> "L"] >>,
         migration_plan |-> << [name |-> "Wave 1"] >>,
         backlog_slice |-> << [id |-> "STORY-001", effort |-> "M"] >>],
     technical_badeffort |->
        [backlog_slice |-> << [id |-> "STORY-001", effort |-> "huge"] >>]]

\* what llm.ainvoke may do on the analysis call
IngestionCompletions ==
    {[raises |-> TRUE,  text |-> <<"LLM API error">>],
     [raises |-> FALSE, text |-> <<"This is not valid JSON at all">>],
     [raises |-> FALSE, text |-> <<"}", "then", "{">>],
     [raises |-> FALSE, text |-> <<"{", "not json", "}">>],
     [raises |-> FALSE, text |-> <<"{", "full", "}", "and", "{", "norisks", "}">>],
     [raises |-> FALSE, text |-> <<"Here is the analysis:", "{", "full", "}", "Done.">>],
     [raises |-> FALSE, text |-> <<"{", "norisks", "}">>],
     [raises |-> FALSE, text |-> <<"{", "}">>],
     [raises |-> FALSE, text |-> <<"{", "badseverity", "}">>]}

\* str.find: 0-based index of the first occurrence, -1 when absent
find(text, frag) ==
    IF Contains(text, frag)
    THEN (CHOOSE i \in DOMAIN text :
              text[i] = frag /\ \A j \in 1..(i - 1) : text[j] # frag) - 1
    ELSE -1

\* str.rfind: 0-based index of the last occurrence, -1 when absent
rfind(text, frag) ==
    IF Contains(text, frag)
    THEN (CHOOSE i \in DOMAIN text :
              text[i] = frag /\ \A j \in (i + 1)..Len(text) : text[j] # frag) - 1
    ELSE -1

EmptyObject == [x \in {} |-> <<>>]

\* json.loads on a slice that starts with "{" and ends with "}"
json_loads(slice) ==
    IF Len(slice) = 2 THEN [ok |-> TRUE, value |-> EmptyObject]
    ELSE IF Len(slice) = 3 /\ slice[2] \in DOMAIN JsonMembers
         THEN [ok |-> TRUE, value |-> JsonMembers[slice[2]]]
         ELSE [ok |-> FALSE, value |-> EmptyObject]

EmptyAnalysis ==
    [languages |-> <<>>, frameworks |-> <<>>, build_systems |-> <<>>, risks |-> <<>>]

\* the find / rfind / json.loads block both nodes use on a completion text:
\* the parsed object, or fallback when there is no brace-delimited slice or
\* json.loads raises JSONDecodeError
ExtractJson(response_text, fallback) ==
    LET json_start == find(response_text, "{")
        json_end   == rfind(response_text, "}") + 1
    IN  IF json_start >= 0 /\ json_end > json_start
        THEN LET loaded == json_loads(SubSeq(response_text, json_start + 1, json_end))
             IN  IF loaded.ok THEN loaded.value ELSE fallback
        ELSE fallback

\* mutant: the fallback is an empty dict, so every later .get takes its default
parse_analysis_empty_dict(response_text) == ExtractJson(response_text, EmptyObject)

\* the "Parse LLM response" block: the analysis dict the node continues with
parse_analysis(response_text) == ExtractJson(response_text, EmptyAnalysis)

\* dict.get(key, default)
DictGet(d, key, default) == IF key \in DOMAIN d THEN d[key] ELSE default

RiskSeverity == {"critical", "high", "medium", "low", "info"}

\* f"RISK-{i:03d}" for the indices a response of JsonMembers can reach
DefaultRiskId == <<"RISK-000", "RISK-001", "RISK-002">>

RiskItem(i, r) ==
    [id          |-> DictGet(r, "id", DefaultRiskId[i + 1]),
     category    |-> DictGet(r, "category", "tech_debt"),
     severity    |-> DictGet(r, "severity", "medium"),
     title       |-> DictGet(r, "title", "Unknown risk"),
     description |-> DictGet(r, "description", ""),
     remediation |-> IF "remediation" \in DOMAIN r THEN Some(r.remediation) ELSE None]

\* the "Build risks from analysis" comprehension: RiskSeverity(...) raises
\* ValueError on a value outside the enum
build_risks(analysis) ==
    LET dicts == DictGet(analysis, "risks", <<>>)
        severity(i) == DictGet(dicts[i], "severity", "medium")
        invalid == {i \in DOMAIN dicts : severity(i) \notin RiskSeverity}
    IN  IF invalid # {}
        THEN [raised |-> TRUE, risks |-> <<>>,
              message |-> <<"'", severity(CHOOSE i \in invalid : \A j \in invalid : i <= j),
                            "' is not a valid RiskSeverity">>]
        ELSE [raised |-> FALSE, message |-> <<>>,
              risks |-> [i \in DOMAIN dicts |-> RiskItem(i - 1, dicts[i])]]

-----------------------------------------------------------------------------
(* Messages and the add_messages reducer                                   *)

SystemMessage(content) == [type |-> "system", content |-> content, id |-> None]

HumanMessage(content) == [type |-> "human", content |-> content, id |-> None]

AIMessage(content) == [type |-> "ai", content |-> content, id |-> None]

CODE_INGESTION_SYSTEM_PROMPT == <<"CODE_INGESTION_SYSTEM_PROMPT">>

ARCHITECT_SYSTEM_PROMPT == <<"ARCHITECT_SYSTEM_PROMPT">>

\* "if m.id is None: m.id = str(uuid.uuid4())": ids n, n+1, ... stand for
\* the fresh uuids
RECURSIVE AssignIds(_, _)
AssignIds(msgs, n) ==
    IF msgs = <<>> THEN <<>>
    ELSE IF Head(msgs).id = None
         THEN <<[Head(msgs) EXCEPT !.id = Some(n)]>> \o AssignIds(Tail(msgs), n + 1)
         ELSE <<Head(msgs)>> \o AssignIds(Tail(msgs), n)

Unidentified(msgs) == Cardinality({i \in DOMAIN msgs : msgs[i].id = None})

\* the merge loop: a message whose id is already in merged replaces that
\* entry in place, any other message is appended
RECURSIVE MergeById(_, _)
MergeById(merged, right) ==
    IF right = <<>> THEN merged
    ELSE LET m == Head(right)
             at == {i \in DOMAIN merged : merged[i].id = m.id}
         IN  IF at # {}
             THEN MergeById([merged EXCEPT ![CHOOSE i \in at : TRUE] = m], Tail(right))
             ELSE MergeById(Append(merged, m), Tail(right))

\* mutant: operator.add as the reducer
add_messages_concat(left, right, n) == left \o right

\* langgraph.graph.message.add_messages, the reducer annotated on
\* AgentState.messages
add_messages(left, right, n) ==
    LET l == AssignIds(left, n)
        r == AssignIds(right, n + Unidentified(left))
    IN  MergeById(l, r)

-----------------------------------------------------------------------------
(* AgentState and the merge of a node's update                             *)

IngestionStatus == {"pending", "in_progress", "completed", "failed"}

\* AgentState(repo_url=..., ingestion_policy=...) with the schema's defaults
AgentState(repo_url, policy) ==
    [messages         |-> <<>>,
     repo_url         |-> repo_url,
     ref              |-> "main",
     ingestion_policy |-> policy,
     ingestion_status |-> "pending",
     repo_bundle      |-> None,
     business_report  |-> None,
     technical_report |-> None,
     current_agent    |-> None,
     error            |-> None,
     completed        |-> FALSE]

\* the runner's write of a node's partial update: a key the update carries
\* replaces the field (messages goes through its reducer), any other field
\* keeps its value
MergeUpdate(s, upd, n) ==
    [f \in DOMAIN s |->
        IF f \in DOMAIN upd
        THEN IF f = "messages" THEN add_messages(s.messages, upd.messages, n)
             ELSE upd[f]
        ELSE s[f]]

-----------------------------------------------------------------------------
(* Code ingestion node                                                     *)

\* mutant: every bucket receives every path
PathsClassified_all(files, classification) ==
    [i \in DOMAIN files |-> files[i].path]

\* the if/elif chain of the file loop: paths of the files with that
\* classification, in yield order
RECURSIVE PathsClassified(_, _)
PathsClassified(files, classification) ==
    IF files = <<>> THEN <<>>
    ELSE (IF Head(files).classification = Some(classification)
          THEN <<Head(files).path>> ELSE <<>>)
         \o PathsClassified(Tail(files), classification)

\* list(language_counts.keys()): detected languages in first-seen order
RECURSIVE LanguageKeys(_, _)
LanguageKeys(files, seen) ==
    IF files = <<>> THEN seen
    ELSE LET lang == Head(files).language
         IN  IF lang # None /\ ~Contains(seen, lang[1])
             THEN LanguageKeys(Tail(files), Append(seen, lang[1]))
             ELSE LanguageKeys(Tail(files), seen)

\* RepoBundle(...) as the node builds it; excluded_count and
\* secrets_redacted are the node's locals, which it never increments
RepoBundle(s, files, total_size, dependencies, analysis, risks) ==
    [repo_url         |-> s.repo_url[1],
     ref              |-> s.ref,
     languages        |-> DictGet(analysis, "languages", LanguageKeys(files, <<>>)),
     frameworks       |-> DictGet(analysis, "frameworks", <<>>),
     build_systems    |-> DictGet(analysis, "build_systems", <<>>),
     files            |-> files,
     total_files      |-> Len(files),
     total_size_bytes |-> total_size,
     dependencies     |-> dependencies,
     code_files       |-> PathsClassified(files, "code"),
     config_files     |-> PathsClassified(files, "config"),
     doc_files        |-> PathsClassified(files, "docs"),
     iac_files        |-> PathsClassified(files, "iac"),
     cicd_files       |-> PathsClassified(files, "cicd"),
     test_files       |-> PathsClassified(files, "tests"),
     risks            |-> risks,
     files_ingested   |-> Len(files),
     files_excluded   |-> 0,
     secrets_redacted |-> 0,
     ingestion_policy |-> s.ingestion_policy]

\* return value of the validation branch
ValidationFailedUpdate(messages) ==
    [ingestion_status |-> "failed",
     error            |-> Some(<<"repo_url is required">>),
     messages         |-> Append(messages, AIMessage(<<"Error: repo_url is required">>))]

\* mutant: the except clauses drop the exception's message
IngestionFailedUpdate_generic(messages, message) ==
    [ingestion_status |-> "failed",
     error            |-> Some(<<"Ingestion failed">>),
     messages         |-> Append(messages, AIMessage(<<"Ingestion failed">>)),
     current_agent    |-> Some("code_ingestion")]

\* mutant: the except clauses return no error key
IngestionFailedUpdate_no_error(messages, message) ==
    [ingestion_status |-> "failed",
     messages         |-> Append(messages,
                                 AIMessage(<<"Ingestion failed: ">> \o message)),
     current_agent    |-> Some("code_ingestion")]

\* return value of both except clauses: message is e.message, or str(e)
IngestionFailedUpdate(messages, message) ==
    LET error_msg == <<"Ingestion failed: ">> \o message
    IN  [ingestion_status |-> "failed",
         error            |-> Some(error_msg),
         messages         |-> Append(messages, AIMessage(error_msg)),
         current_agent    |-> Some("code_ingestion")]

\* mutant: the success path returns no repo_bundle key
IngestionCompletedUpdate_no_bundle(messages, repo_bundle) ==
    [ingestion_status |-> "completed",
     messages         |-> Append(messages,
                                 AIMessage(<<"Repository ingestion complete:">>)),
     current_agent    |-> Some("code_ingestion"),
     error            |-> None]

\* return value of the success path
IngestionCompletedUpdate(messages, repo_bundle) ==
    [ingestion_status |-> "completed",
     repo_bundle      |-> Some(repo_bundle),
     messages         |-> Append(messages,
                                 AIMessage(<<"Repository ingestion complete:">>)),
     current_agent    |-> Some("code_ingestion"),
     error            |-> None]

NodeResult(upd, made, yielded) == [update |-> upd, calls |-> made, walked |-> yielded]

\* one call to an external capability: the operation, whether it raised,
\* and for a completion call the text it raised with or returned
Call(op, raised, text) == [op |-> op, raised |-> raised, text |-> text]

CompletionCall(op, completion) == Call(op, completion.raises, completion.text)

\* mutant: a raising analysis call is treated like an unparseable response
AnalyseAndBundle_degrade(s, messages, files, dependencies, completion) ==
    LET analysis == IF completion.raises THEN EmptyAnalysis
                    ELSE parse_analysis(completion.text)
        built    == build_risks(analysis)
    IN  IF built.raised
        THEN IngestionFailedUpdate(messages, built.message)
        ELSE IngestionCompletedUpdate(
                 messages,
                 RepoBundle(s, files, SumSizes(files), dependencies,
                            analysis, built.risks))

\* the analysis call and everything after it
AnalyseAndBundle(s, messages, files, dependencies, completion) ==
    IF completion.raises
    THEN IngestionFailedUpdate(messages, <<"LLM analysis failed: ">> \o completion.text)
    ELSE LET analysis == parse_analysis(completion.text)
             built    == build_risks(analysis)
         IN  IF built.raised
             THEN IngestionFailedUpdate(messages, built.message)
             ELSE IngestionCompletedUpdate(
                      messages,
                      RepoBundle(s, files, SumSizes(files), dependencies,
                                 analysis, built.risks))

\* code_ingestion_node up to the analysis call: validation, resolving the
\* repository, the file loop over the Walker and dependency discovery.
\* done: the node has returned (update is its return value)
BeforeAnalysis(s, r) ==
    LET started == Append(s.messages, SystemMessage(CODE_INGESTION_SYSTEM_PROMPT))
    IN  IF ~Truthy(s.repo_url)
        THEN [done |-> TRUE, calls |-> <<>>, files |-> <<>>, dependencies |-> <<>>,
              messages |-> started,
              update |-> ValidationFailedUpdate(started)]
        ELSE
        LET messages == Append(started,
                               HumanMessage(<<"Ingesting repository: ">> \o s.repo_url[1]
                                            \o <<" (ref: ", s.ref, ")">>))
            resolved == get_repository(s.repo_url[1], r)
        IN  IF resolved.raised
            THEN [done |-> TRUE, calls |-> <<Call("get_repository", TRUE, resolved.message)>>,
                  files |-> <<>>,
                  dependencies |-> <<>>, messages |-> messages,
                  update |-> IngestionFailedUpdate(
                                 messages,
                                 <<"Failed to access repository: ">> \o resolved.message)]
            ELSE [done |-> FALSE,
                  calls |-> <<Call("get_repository", FALSE, <<>>),
                              Call("list_files", FALSE, <<>>),
                              Call("discover_dependencies", FALSE, <<>>)>>,
                  files |-> list_files(r, Root, s.ingestion_policy),
                  dependencies |-> discover_dependencies(r),
                  messages |-> messages,
                  update |-> <<>>]

\* code_ingestion_node from the analysis call on, given what the first part
\* gathered: the update the node returns, the capability calls it made and
\* the files the Walker yielded to it
AfterGathering(s, gathered, completion) ==
    IF gathered.done
    THEN NodeResult(gathered.update, gathered.calls, gathered.files)
    ELSE NodeResult(
             AnalyseAndBundle(s, gathered.messages, gathered.files,
                              gathered.dependencies, completion),
             Append(gathered.calls, CompletionCall("llm.ainvoke", completion)),
             gathered.files)

\* code_ingestion_node(state) against repository r, with completion the
\* behaviour of llm.ainvoke
code_ingestion_node(s, r, completion) ==
    AfterGathering(s, BeforeAnalysis(s, r), completion)

-----------------------------------------------------------------------------
(* Architect node                                                          *)

EffortBand == {"S", "M", "L", "XL"}

\* what llm.ainvoke may do on a report call
BusinessCompletions ==
    {[raises |-> TRUE,  text |-> <<"LLM API error">>],
     [raises |-> FALSE, text |-> <<"Invalid response without JSON">>],
     [raises |-> FALSE, text |-> <<"{", "business", "}">>],
     [raises |-> FALSE, text |-> <<"{", "business_badeffort", "}">>]}

TechnicalCompletions ==
    {[raises |-> TRUE,  text |-> <<"LLM API error">>],
     [raises |-> FALSE, text |-> <<"Invalid response without JSON">>],
     [raises |-> FALSE, text |-> <<"Report:", "{", "technical", "}">>],
     [raises |-> FALSE, text |-> <<"{", "technical_badeffort", "}">>]}

\* some element of the list makes an enum constructor raise ValueError
EnumRaises(dicts, key, default, enum) ==
    \E i \in DOMAIN dicts : DictGet(dicts[i], key, default) \notin enum

\* BusinessReport(...): raised when EffortBand(...) or RiskSeverity(...)
\* rejects a value of an option
BusinessReport(biz_data) ==
    LET options == DictGet(biz_data, "options", <<>>)
    IN  IF \/ EnumRaises(options, "effort", "M", EffortBand)
           \/ EnumRaises(options, "risk_level", "medium", RiskSeverity)
        THEN [raised |-> TRUE, report |-> None]
        ELSE [raised |-> FALSE,
              report |-> Some(
                [executive_summary |-> DictGet(biz_data, "executive_summary",
                                               "Report generation incomplete"),
                 current_state     |-> DictGet(biz_data, "current_state", ""),
                 options           |->
                    [i \in DOMAIN options |->
                        [effort      |-> DictGet(options[i], "effort", "M"),
                         risk_level  |-> DictGet(options[i], "risk_level", "medium"),
                         recommended |-> DictGet(options[i], "recommended", FALSE)]],
                 value_and_kpis    |-> DictGet(biz_data, "value_and_kpis", ""),
                 adoption_plan     |-> DictGet(biz_data, "adoption_plan", "")])]

\* TechnicalReport(...): raised when RiskSeverity(...) or EffortBand(...)
\* rejects a value of the risk register or of the backlog
TechnicalReport(tech_data) ==
    LET risk_register == DictGet(tech_data, "risk_register", <<>>)
        backlog       == DictGet(tech_data, "backlog_slice", <<>>)
        migration     == DictGet(tech_data, "migration_plan", <<>>)
        with_effort   == SelectSeq(risk_register, LAMBDA r : "effort" \in DOMAIN r)
    IN  IF \/ EnumRaises(risk_register, "severity", "medium", RiskSeverity)
           \/ EnumRaises(with_effort, "effort", "M", EffortBand)
           \/ EnumRaises(backlog, "effort", "M", EffortBand)
        THEN [raised |-> TRUE, report |-> None]
        ELSE [raised |-> FALSE,
              report |-> Some(
                [codebase_map   |-> DictGet(tech_data, "codebase_map", ""),
                 topology       |-> DictGet(tech_data, "topology", ""),
                 risk_register  |->
                    [i \in DOMAIN risk_register |->
                        [severity |-> DictGet(risk_register[i], "severity", "medium")]],
                 migration_plan |-> Len(migration),
                 backlog_slice  |->
                    [i \in DOMAIN backlog |->
                        [effort |-> DictGet(backlog[i], "effort", "M")]]])]

\* mutant: the failure update carries a default business report
ArchitectFailedUpdate_partial(messages, message) ==
    [error           |-> Some(<<"Architecture analysis failed: ">> \o message),
     messages        |-> Append(messages,
                                AIMessage(<<"Architecture analysis failed: ">>
                                          \o message)),
     current_agent   |-> Some("architect"),
     business_report |-> Some(BusinessReport(EmptyObject).report)]

\* mutant: the except clauses mark the run completed
ArchitectFailedUpdate_completed(messages, message) ==
    LET error_msg == <<"Architecture analysis failed: ">> \o message
    IN  [error         |-> Some(error_msg),
         messages      |-> Append(messages, AIMessage(error_msg)),
         current_agent |-> Some("architect"),
         completed     |-> TRUE]

\* mutant: the except clauses report no error
ArchitectFailedUpdate_silent(messages, message) ==
    [messages      |-> Append(messages,
                              AIMessage(<<"Architecture analysis failed: ">> \o message)),
     current_agent |-> Some("architect")]

\* mutant: the except clauses reset the bundle
ArchitectFailedUpdate_clears_bundle(messages, message) ==
    LET error_msg == <<"Architecture analysis failed: ">> \o message
    IN  [error         |-> Some(error_msg),
         repo_bundle   |-> None,
         messages      |-> Append(messages, AIMessage(error_msg)),
         current_agent |-> Some("architect")]

\* return value of both except clauses
ArchitectFailedUpdate(messages, message) ==
    LET error_msg == <<"Architecture analysis failed: ">> \o message
    IN  [error         |-> Some(error_msg),
         messages      |-> Append(messages, AIMessage(error_msg)),
         current_agent |-> Some("architect")]

\* return value of the success path
ArchitectCompletedUpdate(messages, business_report, technical_report) ==
    [business_report  |-> business_report,
     technical_report |-> technical_report,
     messages         |-> Append(messages,
                                 AIMessage(<<"Architecture analysis complete:">>)),
     current_agent    |-> Some("architect"),
     completed        |-> TRUE,
     error            |-> None]

\* architect_node(state), with the behaviour of the two report calls
architect_node(s, business, technical) ==
    LET started == Append(s.messages, SystemMessage(ARCHITECT_SYSTEM_PROMPT))
    IN  IF s.repo_bundle = None
        THEN NodeResult(
                 ArchitectFailedUpdate(
                     started,
                     <<"Repository bundle not available. Run Code Ingestion Agent first.">>),
                 <<>>, <<>>)
        ELSE
        LET messages == Append(started,
                               HumanMessage(<<"Generating comprehension reports for: ">>
                                            \o s.repo_bundle[1].repo_url))
        IN  IF business.raises
            THEN NodeResult(
                     ArchitectFailedUpdate(
                         messages,
                         <<"Failed to generate business report: ">> \o business.text),
                     <<CompletionCall("architect.llm.ainvoke", business)>>, <<>>)
            ELSE
            LET biz == BusinessReport(ExtractJson(business.text, EmptyObject))
            IN  IF biz.raised
                THEN NodeResult(
                         ArchitectFailedUpdate(messages, <<"is not a valid enum value">>),
                         <<CompletionCall("architect.llm.ainvoke", business)>>, <<>>)
                ELSE IF technical.raises
                THEN NodeResult(
                         ArchitectFailedUpdate(
                             messages,
                             <<"Failed to generate technical report: ">> \o technical.text),
                         <<CompletionCall("architect.llm.ainvoke", business),
                               CompletionCall("architect.llm.ainvoke", technical)>>, <<>>)
                ELSE
                LET tech == TechnicalReport(ExtractJson(technical.text, EmptyObject))
                IN  IF tech.raised
                    THEN NodeResult(
                             ArchitectFailedUpdate(messages, <<"is not a valid enum value">>),
                             <<CompletionCall("architect.llm.ainvoke", business),
                               CompletionCall("architect.llm.ainvoke", technical)>>, <<>>)
                    ELSE NodeResult(
                             ArchitectCompletedUpdate(messages, biz.report, tech.report),
                             <<CompletionCall("architect.llm.ainvoke", business),
                               CompletionCall("architect.llm.ainvoke", technical)>>, <<>>)

-----------------------------------------------------------------------------
(* The workflow graph and its runner                                       *)

\* mutant: the edge tests the status alone
should_continue_status_only(s) ==
    IF s.ingestion_status = "completed" THEN "architect" ELSE "end"

\* the conditional edge after code_ingestion; a RepoBundle object is truthy
should_continue_to_architect(s) ==
    IF s.ingestion_status = "completed" /\ s.repo_bundle # None
    THEN "architect"
    ELSE "end"

RepoUrls == {None, Some(<<>>), Some(OtherHostUrl), Some(OwnerOnlyUrl), Some(GithubUrl)}

NoRepo == [resolve |-> "404", tree |-> <<>>, failing |-> {}, fetch |-> "ok"]

\* a URL that names a repository on the source-control host
Resolvable(url) == Truthy(url) /\ Contains(url[1], "github.com") /\ NumParts(url[1]) >= 2

\* run_comprehension_workflow: the initial AgentState handed to graph.ainvoke
Init ==
    /\ \E url \in RepoUrls, include_tests \in BOOLEAN :
          state = AgentState(url, IngestionPolicy(include_tests))
    /\ repo \in Repos
    /\ ~Resolvable(state.repo_url) => repo = NoRepo
    /\ pc = "START"
    /\ update = None
    /\ route = "none"
    /\ executed = <<>>
    /\ calls = <<>>
    /\ walked = <<>>
    /\ next_id = 1
    /\ jobs = <<>>
    /\ tasks = <<>>
    /\ response = None

\* START -> code_ingestion
Start ==
    /\ pc = "START"
    /\ pc' = "code_ingestion"
    /\ UNCHANGED <<state, update, route, executed, calls, walked, repo, next_id,
                 jobs, tasks, response>>

\* the runner calls code_ingestion_node, which returns its update
RunCodeIngestion ==
    /\ pc = "code_ingestion"
    /\ update = None
    /\ \E gathered \in {BeforeAnalysis(state, repo)} :
          \E completion \in IngestionCompletions :
             \E result \in {AfterGathering(state, gathered, completion)} :
                /\ update' = Some(result.update)
                /\ calls' = calls \o result.calls
                /\ walked' = result.walked
    /\ executed' = Append(executed, "code_ingestion")
    /\ UNCHANGED <<state, pc, route, repo, next_id,
                 jobs, tasks, response>>

IdsUsed(s, upd) == Unidentified(s.messages) + Unidentified(upd.messages)

\* mutant: a plain edge code_ingestion -> architect
ConditionalEdge_plain(s) == "architect"

\* add_conditional_edges("code_ingestion", should_continue_to_architect, ...)
ConditionalEdge(s) == should_continue_to_architect(s)

\* the runner merges the update and follows the conditional edge
RouteAfterIngestion ==
    /\ pc = "code_ingestion"
    /\ update # None
    /\ state' = MergeUpdate(state, update[1], next_id)
    /\ next_id' = next_id + IdsUsed(state, update[1])
    /\ route' = ConditionalEdge(state')
    /\ pc' = IF route' = "architect" THEN "architect" ELSE "END"
    /\ update' = None
    /\ UNCHANGED <<executed, calls, walked, repo,
                 jobs, tasks, response>>

\* the runner calls architect_node, which returns its update
RunArchitect ==
    /\ pc = "architect"
    /\ update = None
    /\ \E business \in BusinessCompletions, technical \in TechnicalCompletions :
          \E result \in {architect_node(state, business, technical)} :
             /\ update' = Some(result.update)
             /\ calls' = calls \o result.calls
    /\ executed' = Append(executed, "architect")
    /\ UNCHANGED <<state, pc, route, walked, repo, next_id,
                 jobs, tasks, response>>

\* mutant: an edge architect -> code_ingestion in place of architect -> END
FinishArchitect_loop ==
    /\ pc = "architect"
    /\ update # None
    /\ state' = MergeUpdate(state, update[1], next_id)
    /\ next_id' = next_id + IdsUsed(state, update[1])
    /\ pc' = "code_ingestion"
    /\ update' = None
    /\ UNCHANGED <<route, executed, calls, walked, repo,
                 jobs, tasks, response>>

\* the runner merges the update and follows architect -> END
FinishArchitect ==
    /\ pc = "architect"
    /\ update # None
    /\ state' = MergeUpdate(state, update[1], next_id)
    /\ next_id' = next_id + IdsUsed(state, update[1])
    /\ pc' = "END"
    /\ update' = None
    /\ UNCHANGED <<route, executed, calls, walked, repo,
                 jobs, tasks, response>>

Next ==
    \/ Start
    \/ RunCodeIngestion
    \/ RouteAfterIngestion
    \/ RunArchitect
    \/ FinishArchitect

Spec == Init /\ [][Next]_vars

\* graph.ainvoke keeps stepping while a node is scheduled, and every node
\* invocation returns
\* the graph's control flow does not depend on the files of the repository:
\* runs against repositories with an empty root, under every outcome of
\* validation, resolving and the completion calls
FairInit == Init /\ repo.tree = <<>>

FairSpec == FairInit /\ [][Next]_vars /\ WF_vars(Next)

-----------------------------------------------------------------------------
(* The conditional edge as a function of its argument                      *)

\* bundles an ingestion run can produce, one per Walker output
ProbeBundles ==
    LET s0 == AgentState(Some(GithubUrl), IngestionPolicy(TRUE))
    IN  {RepoBundle(s0, files, SumSizes(files), <<>>, EmptyAnalysis, <<>>) :
            files \in {list_files(r, Root, s0.ingestion_policy) : r \in Repos}}

\* AgentState(ingestion_status=..., repo_bundle=...) as the tests build it
RouteInit ==
    /\ \E status \in IngestionStatus,
          bundle \in {None} \cup {Some(b) : b \in ProbeBundles} :
          state = [AgentState(Some(GithubUrl), IngestionPolicy(TRUE))
                      EXCEPT !.ingestion_status = status, !.repo_bundle = bundle]
    /\ repo = NoRepo
    /\ pc = "probe"
    /\ update = None
    /\ route = "none"
    /\ executed = <<>>
    /\ calls = <<>>
    /\ walked = <<>>
    /\ next_id = 1
    /\ jobs = <<>>
    /\ tasks = <<>>
    /\ response = None

\* one call of should_continue_to_architect(state)
ProbeRoute ==
    /\ pc = "probe"
    /\ route' = should_continue_to_architect(state)
    /\ pc' = "probed"
    /\ UNCHANGED <<state, update, executed, calls, walked, repo, next_id,
                 jobs, tasks, response>>

RouteNext == ProbeRoute

RouteSpec == RouteInit /\ [][RouteNext]_vars

-----------------------------------------------------------------------------
(* The architect node invoked on a state of the caller's making            *)

\* AgentState(repo_url=..., ingestion_status=..., repo_bundle=...) handed to
\* architect_node directly, with or without a bundle
ArchitectInit ==
    /\ \E status \in IngestionStatus,
          bundle \in {None} \cup {Some(b) : b \in ProbeBundles} :
          state = [AgentState(Some(GithubUrl), IngestionPolicy(TRUE))
                      EXCEPT !.ingestion_status = status, !.repo_bundle = bundle]
    /\ repo = NoRepo
    /\ pc = "architect"
    /\ update = None
    /\ route = "none"
    /\ executed = <<>>
    /\ calls = <<>>
    /\ walked = <<>>
    /\ next_id = 1
    /\ jobs = <<>>
    /\ tasks = <<>>
    /\ response = None

ArchitectNext == RunArchitect \/ FinishArchitect

ArchitectSpec == ArchitectInit /\ [][ArchitectNext]_vars

-----------------------------------------------------------------------------
(* classify_file as a function of its argument                             *)

MaxClassifyCalls == 2

\* paths handed to classify_file: one per category, paths that patterns of
\* two categories match, paths only the last segment matches, and paths no
\* pattern matches
ClassifyPaths ==
    {<<"s","r","c","/","a",".","p","y">>,
     <<"c","d","k",".","j","s","o","n">>,
     <<"R","E","A","D","M","E",".","m","d">>,
     <<"a","/","R","E","A","D","M","E">>,
     <<"m","a","i","n",".","t","f">>,
     <<"D","o","c","k","e","r","f","i","l","e">>,
     <<"c","i","/","J","e","n","k","i","n","s","f","i","l","e">>,
     <<".","g","i","t","h","u","b","/","w","o","r","k","f","l","o","w","s","/","c","i",".","y","m","l">>,
     <<"t","e","s","t","s","/","t","e","s","t","_","a",".","p","y">>,
     <<"x",".","s","p","e","c",".","t","s">>,
     <<"n","o","t","e","s">>,
     <<"b","i","n","/","r","u","n">>,
     <<".","c","i","r","c","l","e","c","i","/","r","u","n">>}

ClassifyInit ==
    /\ state = AgentState(None, IngestionPolicy(TRUE))
    /\ repo = NoRepo
    /\ pc = "classify"
    /\ update = None
    /\ route = "none"
    /\ executed = <<>>
    /\ calls = <<>>
    /\ walked = <<>>
    /\ next_id = 1
    /\ jobs = <<>>
    /\ tasks = <<>>
    /\ response = None

\* one call github.classify_file(path), logged with the value it returned
ClassifyFile ==
    /\ pc = "classify"
    /\ Len(calls) < MaxClassifyCalls
    /\ \E path \in ClassifyPaths :
          calls' = Append(calls, [op |-> "classify_file", raised |-> FALSE,
                                  text |-> path, result |-> classify_file(path)])
    /\ UNCHANGED <<state, pc, update, route, executed, walked, repo, next_id,
                 jobs, tasks, response>>

ClassifyNext == ClassifyFile

ClassifySpec == ClassifyInit /\ [][ClassifyNext]_vars

-----------------------------------------------------------------------------
(* GitHubService.redact_secrets: texts are tuples of one-character strings,  *)
(* a rule is a regular expression and a category label, and a regular        *)
(* expression is a sequence of items matched with Python's backtracking      *)
(* order (alternatives left to right, repetitions longest first).            *)

UpperCase ==
    <<"A","B","C","D","E","F","G","H","I","J","K","L","M",
      "N","O","P","Q","R","S","T","U","V","W","X","Y","Z">>

LowerCase ==
    <<"a","b","c","d","e","f","g","h","i","j","k","l","m",
      "n","o","p","q","r","s","t","u","v","w","x","y","z">>

Range(seq) == {seq[i] : i \in 1..Len(seq)}

Upper == Range(UpperCase)
Lower == Range(LowerCase)
Digit == {"0","1","2","3","4","5","6","7","8","9"}
AlphaNum == Lower \union Upper \union Digit

\* \s of a str pattern
Whitespace == {" ", "\t", "\n", "\r", "\f"}
Quotes == {"\"", "'"}

\* the other case of a cased character (re.IGNORECASE)
SwapCase(c) ==
    IF c \in Upper THEN LowerCase[CHOOSE i \in 1..26 : UpperCase[i] = c]
    ELSE IF c \in Lower THEN UpperCase[CHOOSE i \in 1..26 : LowerCase[i] = c]
    ELSE c

\* items of a regular expression: a character class repeated min..max times
\* (max None: unbounded), or an alternation of item sequences
Rep(chars, min, max) ==
    [kind |-> "rep", neg |-> FALSE, chars |-> chars, min |-> min, max |-> max,
     alts |-> <<>>]
NotRep(chars, min, max) ==
    [kind |-> "rep", neg |-> TRUE, chars |-> chars, min |-> min, max |-> max,
     alts |-> <<>>]
Alt(alts) ==
    [kind |-> "alt", neg |-> FALSE, chars |-> {}, min |-> 0, max |-> None,
     alts |-> alts]
One(chars) == Rep(chars, 1, Some(1))
Opt(chars) == Rep(chars, 0, Some(1))
Star(chars) == Rep(chars, 0, None)
Lit(s) == [i \in 1..Len(s) |-> One({s[i]})]

\* key \s*[:=]\s*["']? value ["']?
Assignment(key, value) ==
    key \o <<Star(Whitespace), One({":", "="}), Star(Whitespace), Opt(Quotes),
             value, Opt(Quotes)>>

SECRET_PATTERNS ==
    << [icase |-> TRUE, replacement |-> <<"A","P","I","_","K","E","Y">>,
        regex |-> Assignment(
            <<Alt(<<Lit(<<"a","p","i">>) \o <<Opt({"_", "-"})>> \o Lit(<<"k","e","y">>),
                    Lit(<<"a","p","i","k","e","y">>)>>)>>,
            Rep(AlphaNum \union {"_", "-"}, 20, None))],
       [icase |-> TRUE, replacement |-> <<"P","A","S","S","W","O","R","D">>,
        regex |-> Assignment(
            <<Alt(<<Lit(<<"p","a","s","s","w","o","r","d">>), Lit(<<"p","a","s","s","w","d">>), Lit(<<"p","w","d">>)>>)>>,
            NotRep(Whitespace \union Quotes, 8, None))],
       [icase |-> TRUE, replacement |-> <<"T","O","K","E","N">>,
        regex |-> Assignment(
            <<Alt(<<Lit(<<"t","o","k","e","n">>), Lit(<<"b","e","a","r","e","r">>), Lit(<<"a","u","t","h">>)>>)>>,
            Rep(AlphaNum \union {"_", "-", "."}, 20, None))],
       [icase |-> FALSE, replacement |-> <<"A","W","S","_","A","C","C","E","S","S","_","K","E","Y">>,
        regex |-> Lit(<<"A","K","I","A">>) \o <<Rep(Digit \union Upper, 16, Some(16))>>],
       [icase |-> TRUE, replacement |-> <<"A","W","S","_","S","E","C","R","E","T">>,
        regex |-> Assignment(
            Lit(<<"a","w","s">>) \o <<Opt({"_", "-"})>> \o Lit(<<"s","e","c","r","e","t">>)
              \o <<Opt({"_", "-"})>> \o Lit(<<"a","c","c","e","s","s">>)
              \o <<Opt({"_", "-"})>> \o Lit(<<"k","e","y">>),
            Rep(AlphaNum \union {"/", "+", "="}, 40, Some(40)))],
       [icase |-> TRUE, replacement |-> <<"A","Z","U","R","E","_","C","R","E","D","E","N","T","I","A","L">>,
        regex |-> Assignment(
            <<Alt(<<Lit(<<"a","z","u","r","e">>), Lit(<<"a","z">>)>>), Opt({"_", "-"}),
              Alt(<<Lit(<<"c","l","i","e","n","t">>), Lit(<<"t","e","n","a","n","t">>), Lit(<<"s","u","b","s","c","r","i","p","t","i","o","n">>)>>),
              Opt({"_", "-"}),
              Alt(<<Lit(<<"i","d">>), Lit(<<"s","e","c","r","e","t">>)>>)>>,
            Rep(AlphaNum \union {"-"}, 36, Some(36)))],
       [icase |-> TRUE, replacement |-> <<"C","O","N","N","E","C","T","I","O","N","_","S","T","R","I","N","G">>,
        regex |-> Assignment(
            Lit(<<"c","o","n","n","e","c","t","i","o","n">>) \o <<Opt({"_", "-"})>> \o Lit(<<"s","t","r","i","n","g">>),
            NotRep(Quotes, 1, None))],
       [icase |-> FALSE, replacement |-> <<"P","R","I","V","A","T","E","_","K","E","Y">>,
        regex |-> Lit(<<"-","-","-","-","-","B","E","G","I","N"," ">>)
                    \o <<Alt(<<Lit(<<"R","S","A"," ">>), Lit(<<"E","C"," ">>), Lit(<<"O","P","E","N","S","S","H"," ">>), <<>>>>)>>
                    \o Lit(<<"P","R","I","V","A","T","E"," ","K","E","Y","-","-","-","-","-">>)],
       [icase |-> FALSE, replacement |-> <<"G","I","T","H","U","B","_","P","A","T">>,
        regex |-> Lit(<<"g","h","p","_">>) \o <<Rep(AlphaNum, 36, Some(36))>>],
       [icase |-> FALSE, replacement |-> <<"G","I","T","H","U","B","_","P","A","T">>,
        regex |-> Lit(<<"g","i","t","h","u","b","_","p","a","t","_">>) \o <<Rep(AlphaNum, 22, Some(22))>>
                    \o Lit(<<"_">>) \o <<Rep(AlphaNum, 59, Some(59))>>] >>

\* does character c belong to the class of item it
InClass(c, it, icase) ==
    ((c \in it.chars) \/ (icase /\ SwapCase(c) \in it.chars)) # it.neg

\* the number of consecutive characters from pos on that item it can take
RECURSIVE MaxRun(_, _, _, _, _)
MaxRun(it, icase, text, pos, n) ==
    IF \/ pos + n > Len(text)
       \/ (it.max # None /\ n >= it.max[1])
       \/ ~InClass(text[pos + n], it, icase)
    THEN n
    ELSE MaxRun(it, icase, text, pos, n + 1)

\* the end positions (index after the last matched character) of the matches
\* of items at pos, in the order the backtracking matcher finds them
RECURSIVE MatchEnds(_, _, _, _)
RECURSIVE TryCounts(_, _, _, _, _, _)
RECURSIVE TryAlts(_, _, _, _, _, _)

TryCounts(it, rest, icase, text, pos, n) ==
    IF n < it.min THEN <<>>
    ELSE MatchEnds(rest, icase, text, pos + n)
           \o TryCounts(it, rest, icase, text, pos, n - 1)

TryAlts(alts, rest, icase, text, pos, k) ==
    IF k > Len(alts) THEN <<>>
    ELSE MatchEnds(alts[k] \o rest, icase, text, pos)
           \o TryAlts(alts, rest, icase, text, pos, k + 1)

MatchEnds(items, icase, text, pos) ==
    IF items = <<>> THEN <<pos>>
    ELSE IF Head(items).kind = "alt"
    THEN TryAlts(Head(items).alts, Tail(items), icase, text, pos, 1)
    ELSE TryCounts(Head(items), Tail(items), icase, text, pos,
                   MaxRun(Head(items), icase, text, pos, 0))

\* pattern.findall / pattern.sub: the non-overlapping matches of a rule, left
\* to right, each as [start, end)
RECURSIVE Matches(_, _, _)
MatchesFrom(rule, text, pos, ends) ==
    IF ends = <<>> THEN Matches(rule, text, pos + 1)
    ELSE <<[start |-> pos, end |-> ends[1]]>> \o Matches(rule, text, ends[1])

Matches(rule, text, pos) ==
    IF pos > Len(text) THEN <<>>
    ELSE MatchesFrom(rule, text, pos,
                     MatchEnds(rule.regex, rule.icase, text, pos))

\* pattern.sub(placeholder, text) for the matches found
RECURSIVE Sub(_, _, _, _)
Sub(rule, text, pos, found) ==
    IF found = <<>> THEN SubSeq(text, pos, Len(text))
    ELSE SubSeq(text, pos, found[1].start - 1)
           \o <<"[","R","E","D","A","C","T","E","D","_">> \o rule.replacement \o <<"]">>
           \o Sub(rule, text, found[1].end, Tail(found))

\* the loop body without its substitution: matches are counted, the text kept
ApplyRule_count_only(rule, acc, found) ==
    [result |-> acc.result,
     redaction_count |-> acc.redaction_count + Len(found)]

\* one iteration of the loop of redact_secrets
ApplyRule(rule, acc, found) ==
    [result |-> IF found = <<>> THEN acc.result
                ELSE Sub(rule, acc.result, 1, found),
     redaction_count |-> acc.redaction_count + Len(found)]

RECURSIVE RedactFrom(_, _)
RedactFrom(k, acc) ==
    IF k > Len(SECRET_PATTERNS) THEN acc
    ELSE RedactFrom(k + 1,
            ApplyRule(SECRET_PATTERNS[k], acc,
                      Matches(SECRET_PATTERNS[k], acc.result, 1)))

redact_secrets(content) ==
    RedactFrom(1, [result |-> content, redaction_count |-> 0])

MaxFragments == 2
MaxRedactCalls == 2

\* pieces of file content: a password key with its separator, a token
\* assignment, secret-shaped values (an AWS access key id, the same shape in
\* lower case, an access key id whose tail spells a password key), a short
\* assigned value, an api key prefix and separators
RedactFragments ==
    {<<"p","w","d","=">>,
     <<"t","o","k","e","n"," ","="," ","A","B","C","D","E","F","G","H","I","J","0","1","2","3","4","5","6","7","8","9","x","y">>,
     <<"A","K","I","A","0","1","2","3","4","5","6","7","8","9","A","B","C","D","E","F">>,
     <<"A","K","I","A","a","b","c","d","e","f","g","h","i","j","k","l","m","n","o","p">>,
     <<"A","K","I","A","0","1","2","3","4","5","6","7","8","9","A","B","C","P","W","D">>,
     <<"=","h","u","n","t","e","r","2","2">>,
     <<"a","p","i","_","k","e","y",":"," ">>,
     <<" ">>,
     <<"\"">>}

\* the contents made of at most n fragments
RECURSIVE ContentsUpTo(_)
ContentsUpTo(n) ==
    IF n = 0 THEN {<<>>}
    ELSE ContentsUpTo(n - 1)
           \union {t \o f : t \in ContentsUpTo(n - 1), f \in RedactFragments}

RedactInit ==
    /\ state = AgentState(None, IngestionPolicy(TRUE))
    /\ repo = NoRepo
    /\ pc = "redact"
    /\ update = None
    /\ route = "none"
    /\ executed = <<>>
    /\ calls = <<>>
    /\ walked = <<>>
    /\ next_id = 1
    /\ jobs = <<>>
    /\ tasks = <<>>
    /\ response = None

\* one call github.redact_secrets(content), logged with the pair it returned;
\* the first call takes a file content, a later call the text the call before
\* it returned
RedactSecrets ==
    /\ pc = "redact"
    /\ Len(calls) < MaxRedactCalls
    /\ \E content \in (IF calls = <<>> THEN ContentsUpTo(MaxFragments)
                       ELSE {calls[Len(calls)].result.result}) :
          calls' = Append(calls, [op |-> "redact_secrets", raised |-> FALSE,
                                  text |-> content,
                                  result |-> redact_secrets(content)])
    /\ UNCHANGED <<state, pc, update, route, executed, walked, repo, next_id,
                 jobs, tasks, response>>

RedactSpec == RedactInit /\ [][RedactSecrets]_vars

-----------------------------------------------------------------------------
(* The job API of src/api.py: the registry, the request handlers and the     *)
(* background task.  uuid.uuid4() is modelled by the number of the job:      *)
(* every job created gets an id no job had before.                           *)

MaxJobs == 1

\* ComprehensionRequest, the fields with no default and the ingestion option
ComprehensionRequest(repo_url, include_tests) ==
    [repo_url |-> repo_url, include_tests |-> include_tests]

JobRequests == {ComprehensionRequest(url, TRUE) : url \in {<<>>, GithubUrl}}

\* the dict start_analysis stores; analyze_sync stores only status, request
\* and created_at, and every reader of the other keys uses job.get(key)
NewJob(status, request) ==
    [status |-> status, request |-> request, created_at |-> "utcnow",
     completed_at |-> None, progress |-> None, result |-> None,
     error |-> None, correlation_id |-> "correlation_id"]

\* the coroutine run_comprehension_job(job_id, request): where it stands
\* ("scheduled", "astream", "returned", "raised", and "responded" once
\* analyze_sync has answered), the channels of its graph run, the node the
\* runner executes next, and its local final_state
Task(request, sync) ==
    [request |-> request, sync |-> sync, pc |-> "scheduled",
     s |-> AgentState(Some(request.repo_url),
                      IngestionPolicy(request.include_tests)),
     node |-> "code_ingestion", next_id |-> 1, final_state |-> None]

\* the ids a client may send: 0, the id of no job, and the ids issued
JobIds == {0} \union DOMAIN tasks

Response(request, job_id, status_code, body) ==
    [request |-> request, job_id |-> job_id, status_code |-> status_code,
     body |-> body]

\* what a job's run meets: a repository with an empty root or none, and
\* completion calls that raise or return the well-formed response
JobRepos ==
    {r \in Repos : r.tree = <<>> /\ r.failing = {} /\ r.resolve \in {"ok", "404"}}

JobCompletions(completions, fragment) ==
    {c \in completions : c.raises \/ Contains(c.text, fragment)}

\* lines 272-273
job_started(js, job_id) ==
    [js EXCEPT ![job_id].status = "running",
               ![job_id].progress =
                   Some([current_agent |-> None, messages |-> <<>>])]

\* lines 314-323: current_agent and one progress entry per message of the
\* update (the entry's content slice is not represented)
agent_progress(js, job_id, node_name, state_update) ==
    LET progress == js[job_id].progress[1]
        entries  == IF "messages" \in DOMAIN state_update
                    THEN [i \in 1..Len(state_update.messages) |->
                              [agent |-> node_name]]
                    ELSE <<>>
    IN  [js EXCEPT ![job_id].progress =
            Some([current_agent |-> Some(node_name),
                  messages |-> progress.messages \o entries])]

\* hasattr(final_state, name): final_state is the dict a node returned, which
\* has keys and no attribute of that name
hasattr(final_state, name) == FALSE

\* lines 327-362: the keys of result
ExtractResult(final_state) ==
    IF final_state = None \/ DOMAIN final_state[1] = {} THEN {}
    ELSE {name \in {"repo_bundle", "business_report", "technical_report"} :
            /\ hasattr(final_state[1], name)
            /\ Truthy(final_state[1][name])}

\* lines 364-366
job_completed(js, job_id, result) ==
    [js EXCEPT ![job_id].status = "completed",
               ![job_id].result = Some(result),
               ![job_id].completed_at = Some("utcnow")]

\* mutant: the handler stores a fresh dict under job_id when there is none
job_failed_upsert(js, job_id, e) ==
    [raised |-> FALSE,
     jobs |-> IF job_id \in DOMAIN js
              THEN [js EXCEPT ![job_id].status = "failed",
                              ![job_id].error = Some(e),
                              ![job_id].completed_at = Some("utcnow")]
              ELSE js @@ (job_id :> [NewJob("failed", <<>>) EXCEPT
                                        !.error = Some(e)])]

\* lines 372-377, the except Exception handler: jobs[job_id] raises KeyError
\* when the job is gone, and nothing catches it
job_failed(js, job_id, e) ==
    IF job_id \in DOMAIN js
    THEN [raised |-> FALSE,
          jobs |-> [js EXCEPT ![job_id].status = "failed",
                              ![job_id].error = Some(e),
                              ![job_id].completed_at = Some("utcnow")]]
    ELSE [raised |-> TRUE, jobs |-> js]

\* a statement of the try block that indexes jobs[job_id]: applied when the
\* job is registered, and otherwise the KeyError goes to the handler
Guarded(js, job_id, written) ==
    IF job_id \in DOMAIN js THEN [raised |-> FALSE, jobs |-> written]
    ELSE job_failed(js, job_id, <<"KeyError">>)

JobInit ==
    /\ state = AgentState(None, IngestionPolicy(TRUE))
    /\ repo = NoRepo
    /\ pc = "api"
    /\ update = None
    /\ route = "none"
    /\ executed = <<>>
    /\ calls = <<>>
    /\ walked = <<>>
    /\ next_id = 1
    /\ jobs = <<>>
    /\ tasks = <<>>
    /\ response = None

\* POST /analyze
start_analysis ==
    /\ pc = "api"
    /\ Len(tasks) < MaxJobs
    /\ \E request \in JobRequests :
          /\ jobs' = jobs @@ ((Len(tasks) + 1) :> NewJob("pending", request))
          /\ tasks' = Append(tasks, Task(request, FALSE))
          /\ response' = Some(Response("POST /analyze", Len(tasks) + 1, 200,
                                       Some("pending")))
    /\ UNCHANGED <<state, pc, update, route, executed, calls, walked, repo,
                   next_id>>

\* the background task runs up to its first await, lines 267-311; the two
\* writes of lines 272-273 are outside the try block
JobStart(job_id) ==
    /\ pc = "api"
    /\ job_id \in DOMAIN tasks
    /\ tasks[job_id].pc = "scheduled"
    /\ IF job_id \in DOMAIN jobs
       THEN /\ jobs' = job_started(jobs, job_id)
            /\ tasks' = [tasks EXCEPT ![job_id].pc = "astream"]
       ELSE /\ jobs' = jobs
            /\ tasks' = [tasks EXCEPT ![job_id].pc = "raised"]
    /\ UNCHANGED <<state, pc, update, route, executed, calls, walked, repo,
                   next_id, response>>

\* POST /analyze/sync up to the first await of the task it awaits
analyze_sync ==
    /\ pc = "api"
    /\ Len(tasks) < MaxJobs
    /\ \E request \in JobRequests :
          /\ jobs' = job_started(
                        jobs @@ ((Len(tasks) + 1) :> NewJob("running", request)),
                        Len(tasks) + 1)
          /\ tasks' = Append(tasks, [Task(request, TRUE) EXCEPT !.pc = "astream"])
    /\ UNCHANGED <<state, pc, update, route, executed, calls, walked, repo,
                   next_id, response>>

\* the updates the node a task is at may return
NodeUpdates(t) ==
    IF t.node = "code_ingestion"
    THEN {code_ingestion_node(t.s, r, completion).update :
            r \in IF Resolvable(t.s.repo_url) THEN JobRepos ELSE {NoRepo},
            completion \in JobCompletions(IngestionCompletions, "Done.")}
    ELSE {architect_node(t.s, business, technical).update :
            business \in JobCompletions(BusinessCompletions, "business"),
            technical \in JobCompletions(TechnicalCompletions, "technical")}

\* the graph of the task runs one node and merges its update
Stepped(t, state_update, merged) ==
    [t EXCEPT !.s = merged,
              !.next_id = t.next_id + IdsUsed(t.s, state_update),
              !.node = IF t.node = "code_ingestion"
                          /\ ConditionalEdge(merged) = "architect"
                       THEN "architect" ELSE "END",
              !.final_state = Some(state_update)]

\* one event of graph.astream reaches the loop body, lines 313-324
AgentProgress(job_id) ==
    /\ pc = "api"
    /\ job_id \in DOMAIN tasks
    /\ tasks[job_id].pc = "astream"
    /\ tasks[job_id].node # "END"
    /\ \E state_update \in NodeUpdates(tasks[job_id]) :
        \E t \in {Stepped(tasks[job_id], state_update,
                          MergeUpdate(tasks[job_id].s, state_update,
                                      tasks[job_id].next_id))} :
          \E done \in {Guarded(jobs, job_id,
                               IF job_id \in DOMAIN jobs
                               THEN agent_progress(jobs, job_id,
                                                   tasks[job_id].node,
                                                   state_update)
                               ELSE jobs)} :
             /\ jobs' = done.jobs
             /\ tasks' = [tasks EXCEPT ![job_id] =
                             IF done.raised THEN [t EXCEPT !.pc = "raised"]
                             ELSE t]
    /\ UNCHANGED <<state, pc, update, route, executed, calls, walked, repo,
                   next_id, response>>

\* graph.astream is exhausted: lines 326-369
JobComplete(job_id) ==
    /\ pc = "api"
    /\ job_id \in DOMAIN tasks
    /\ tasks[job_id].pc = "astream"
    /\ tasks[job_id].node = "END"
    /\ \E done \in {Guarded(jobs, job_id,
                            IF job_id \in DOMAIN jobs
                            THEN job_completed(
                                     jobs, job_id,
                                     ExtractResult(tasks[job_id].final_state))
                            ELSE jobs)} :
          /\ jobs' = done.jobs
          /\ tasks' = [tasks EXCEPT ![job_id].pc =
                          IF done.raised THEN "raised" ELSE "returned"]
    /\ UNCHANGED <<state, pc, update, route, executed, calls, walked, repo,
                   next_id, response>>

\* analyze_sync after the task it awaited: lines 519-533
AnalyzeSyncReturn(job_id) ==
    /\ pc = "api"
    /\ job_id \in DOMAIN tasks
    /\ tasks[job_id].sync
    /\ tasks[job_id].pc \in {"returned", "raised"}
    /\ tasks' = [tasks EXCEPT ![job_id].pc = "responded"]
    /\ response' =
          Some(IF tasks[job_id].pc = "raised" \/ job_id \notin DOMAIN jobs
               THEN Response("POST /analyze/sync", job_id, 500, None)
               ELSE IF jobs[job_id].status = "failed"
               THEN Response("POST /analyze/sync", job_id, 500,
                             jobs[job_id].error)
               ELSE Response("POST /analyze/sync", job_id, 200,
                             Some(jobs[job_id].status)))
    /\ UNCHANGED <<state, pc, update, route, executed, calls, walked, repo,
                   next_id, jobs>>

\* GET /analyze/{job_id}
get_analysis_status(job_id) ==
    /\ pc = "api"
    /\ response' =
          Some(IF job_id \notin DOMAIN jobs
               THEN Response("GET /analyze/{job_id}", job_id, 404,
                             Some("Job not found"))
               ELSE Response("GET /analyze/{job_id}", job_id, 200,
                             Some(jobs[job_id].status)))
    /\ UNCHANGED <<state, pc, update, route, executed, calls, walked, repo,
                   next_id, jobs, tasks>>

\* DELETE /analyze/{job_id}
delete_job(job_id) ==
    /\ pc = "api"
    /\ IF job_id \notin DOMAIN jobs
       THEN /\ response' = Some(Response("DELETE /analyze/{job_id}", job_id,
                                         404, Some("Job not found")))
            /\ jobs' = jobs
       ELSE /\ response' = Some(Response("DELETE /analyze/{job_id}", job_id,
                                         200, Some("deleted")))
            /\ jobs' = [id \in DOMAIN jobs \ {job_id} |-> jobs[id]]
    /\ UNCHANGED <<state, pc, update, route, executed, calls, walked, repo,
                   next_id, tasks>>

JobNext ==
    \/ start_analysis
    \/ analyze_sync
    \/ \E job_id \in DOMAIN tasks : JobStart(job_id)
    \/ \E job_id \in DOMAIN tasks : AgentProgress(job_id)
    \/ \E job_id \in DOMAIN tasks : JobComplete(job_id)
    \/ \E job_id \in DOMAIN tasks : AnalyzeSyncReturn(job_id)
    \/ \E job_id \in JobIds : get_analysis_status(job_id)
    \/ \E job_id \in JobIds : delete_job(job_id)

JobSpec == JobInit /\ [][JobNext]_vars

-----------------------------------------------------------------------------
(* Properties                                                              *)

HasRun(node) == Contains(executed, node)

\* C1: should_continue_to_architect returns "architect" exactly when the
\* status is completed and the bundle is not None, and "end" for every
\* other combination of status and bundle.
C1_RouteIffCompletedWithBundle ==
    pc = "probed" =>
        /\ route \in {"architect", "end"}
        /\ route = "architect" <=>
               (state.ingestion_status = "completed" /\ state.repo_bundle # None)

\* the defensive case: completed with a null bundle is routed to end
C1_Witness ==
    /\ pc = "probed"
    /\ state.ingestion_status = "completed"
    /\ state.repo_bundle = None
    /\ route = "end"

\* C2: the architect node runs only after the ingestion update was merged
\* and the merged state is completed with a bundle; after a failed
\* ingestion the run is at END and the architect node has not run.
C2_ArchitectOnlyAfterCompletedIngestion ==
    /\ (pc = "architect" \/ HasRun("architect")) =>
          /\ executed # <<>> /\ executed[1] = "code_ingestion"
          /\ route = "architect"
          /\ state.ingestion_status = "completed"
          /\ state.repo_bundle # None
    /\ state.ingestion_status = "failed" =>
          /\ pc = "END"
          /\ ~HasRun("architect")
    /\ (update # None /\ pc = "code_ingestion") => ~HasRun("architect")

\* the architect node has run after a completed ingestion
C2_Witness ==
    /\ pc = "END"
    /\ executed = <<"code_ingestion", "architect">>
    /\ state.ingestion_status = "completed"

\* C3: completed implies a bundle, in every state of a run from the default
\* initial state.
C3_CompletedImpliesBundle ==
    state.ingestion_status = "completed" => state.repo_bundle # None

\* a completed ingestion was merged, from a walk that yielded files
C3_Witness ==
    /\ state.ingestion_status = "completed"
    /\ walked # <<>>
    /\ pc = "architect"

\* C4: failed always carries a non-empty error string, and no step taken
\* in a failed state changes the status or the error.
C4_FailedIsTerminalWithError ==
    /\ [](state.ingestion_status = "failed" =>
             (state.error # None /\ state.error[1] # <<>>))
    /\ [][state.ingestion_status = "failed" =>
             (state.ingestion_status' = "failed" /\ state.error' = state.error)]_vars

\* a failed ingestion was merged after the repository could not be resolved
C4_Witness ==
    /\ state.ingestion_status = "failed"
    /\ Len(calls) = 1 /\ calls[1].raised
    /\ state.error # None

\* C5: the status reaches completed or failed only from in_progress, never
\* directly from pending.
C5_TerminalOnlyFromInProgress ==
    [][(/\ state.ingestion_status' # state.ingestion_status
        /\ state.ingestion_status' \in {"completed", "failed"})
       => state.ingestion_status = "in_progress"]_vars

\* the ingestion update the node has returned, if it is not merged yet
PendingIngestionUpdate ==
    IF pc = "code_ingestion" /\ update # None THEN update ELSE None

\* the ingestion update has been merged into the state
IngestionMerged == HasRun("code_ingestion") /\ PendingIngestionUpdate = None

ErrorMentions(error, fragment) == error # None /\ Contains(error[1], fragment)

\* C6: with repo_url empty or null the node returns failed with an error
\* containing "repo_url is required" and no bundle, and no call to
\* get_repository, list_files, discover_dependencies or the LLM is made.
C6_EmptyUrlFailsWithoutCalls ==
    (state.repo_url \in {None, Some(<<>>)} /\ HasRun("code_ingestion")) =>
        /\ calls = <<>>
        /\ walked = <<>>
        /\ PendingIngestionUpdate # None =>
              /\ update[1].ingestion_status = "failed"
              /\ ErrorMentions(update[1].error, "repo_url is required")
              /\ "repo_bundle" \notin DOMAIN update[1]
        /\ IngestionMerged =>
              /\ state.ingestion_status = "failed"
              /\ ErrorMentions(state.error, "repo_url is required")
              /\ state.repo_bundle = None
              /\ pc = "END"

\* the run has ended on an empty-string repo_url
C6_Witness ==
    /\ state.repo_url = Some(<<>>)
    /\ pc = "END"
    /\ state.ingestion_status = "failed"
    /\ calls = <<>>

AnalysisCallRaised ==
    \E i \in DOMAIN calls : calls[i].op = "llm.ainvoke" /\ calls[i].raised

\* C7: when the analysis call raises, the node returns failed with an error
\* naming the LLM failure and no repo_bundle key, so the bundle stays None
\* whatever the Walker had yielded.
C7_LlmFailureDiscardsFiles ==
    AnalysisCallRaised =>
        /\ PendingIngestionUpdate # None =>
              /\ update[1].ingestion_status = "failed"
              /\ ErrorMentions(update[1].error, "LLM analysis failed: ")
              /\ "repo_bundle" \notin DOMAIN update[1]
        /\ IngestionMerged =>
              /\ state.ingestion_status = "failed"
              /\ ErrorMentions(state.error, "LLM analysis failed: ")
              /\ state.repo_bundle = None

\* the analysis call raised after the Walker had yielded files
C7_Witness ==
    /\ AnalysisCallRaised
    /\ Len(walked) >= 2
    /\ pc = "END"
    /\ state.ingestion_status = "failed"

\* no "{" before a "}", or a brace-delimited slice json.loads rejects
NoJsonObject(text) ==
    \/ ~Contains(text, "{")
    \/ ~Contains(text, "}")
    \/ rfind(text, "}") < find(text, "{")
    \/ ~json_loads(SubSeq(text, find(text, "{") + 1, rfind(text, "}") + 1)).ok

AnalysisCallUnparseable ==
    \E i \in DOMAIN calls :
        /\ calls[i].op = "llm.ainvoke"
        /\ ~calls[i].raised
        /\ NoJsonObject(calls[i].text)

BundleIsDegraded(bundle) ==
    /\ bundle # None
    /\ bundle[1].files = walked
    /\ bundle[1].dependencies = discover_dependencies(repo)
    /\ bundle[1].languages = <<>>
    /\ bundle[1].frameworks = <<>>
    /\ bundle[1].build_systems = <<>>
    /\ bundle[1].risks = <<>>

\* C8: when the analysis call returns text with no parseable JSON object,
\* the node returns completed with error None and a bundle that holds every
\* walked file and every dependency and an empty analysis.
C8_UnparseableDegradesToEmptyAnalysis ==
    AnalysisCallUnparseable =>
        /\ PendingIngestionUpdate # None =>
              /\ update[1].ingestion_status = "completed"
              /\ update[1].error = None
              /\ "repo_bundle" \in DOMAIN update[1]
              /\ BundleIsDegraded(update[1].repo_bundle)
        /\ IngestionMerged =>
              /\ state.ingestion_status = "completed"
              /\ BundleIsDegraded(state.repo_bundle)
              /\ ~HasRun("architect") => state.error = None

\* an unparseable response was merged for a walk that yielded source files
\* and a repository with dependencies
C8_Witness ==
    /\ AnalysisCallUnparseable
    /\ pc = "architect" /\ update = None
    /\ \E i \in DOMAIN walked : walked[i].language # None
    /\ state.repo_bundle # None
    /\ state.repo_bundle[1].dependencies # <<>>
    /\ state.repo_bundle[1].languages = <<>>

CategoryIndex ==
    {<<"code_files", "code">>, <<"config_files", "config">>, <<"doc_files", "docs">>,
     <<"iac_files", "iac">>, <<"cicd_files", "cicd">>, <<"test_files", "tests">>}

RECURSIVE SizeSum(_, _)
SizeSum(files, n) ==
    IF n = 0 THEN 0 ELSE files[n].size_bytes + SizeSum(files, n - 1)

BundleInvariant(b) ==
    /\ b.total_files = Len(b.files)
    /\ b.files_ingested = Len(b.files)
    /\ b.total_size_bytes = SizeSum(b.files, Len(b.files))
    /\ \A ix \in CategoryIndex :
          \A i \in DOMAIN b[ix[1]] :
             \E j \in DOMAIN b.files :
                /\ b.files[j].path = b[ix[1]][i]
                /\ b.files[j].classification = Some(ix[2])
                /\ \A k \in DOMAIN b.files : b.files[k].path = b[ix[1]][i] => k = j

\* C9: every bundle a successful ingestion returns has total_files =
\* files_ingested = len(files), total_size_bytes the sum of the sizes, and
\* each path of a category list exactly once in files with that
\* classification.
C9_BundleInvariant ==
    /\ (PendingIngestionUpdate # None /\ "repo_bundle" \in DOMAIN update[1]) =>
          BundleInvariant(update[1].repo_bundle[1])
    /\ state.repo_bundle # None => BundleInvariant(state.repo_bundle[1])

\* a bundle with files in two categories and a file in none
C9_Witness ==
    /\ state.repo_bundle # None
    /\ state.repo_bundle[1].code_files # <<>>
    /\ state.repo_bundle[1].doc_files # <<>>
    /\ \E i \in DOMAIN state.repo_bundle[1].files :
          state.repo_bundle[1].files[i].classification = None

Contents(msgs) ==
    [i \in DOMAIN msgs |-> [type |-> msgs[i].type, content |-> msgs[i].content]]

\* C10: every step keeps the message log it found as a prefix of the log it
\* leaves, no id occurs twice, and a merge appends exactly the messages the
\* node put after the history it returned.
C10_MessagesAppendOnly ==
    [][/\ IsPrefix(state.messages, state.messages')
       /\ \A i, j \in DOMAIN state.messages' :
             /\ state.messages'[i].id # None
             /\ state.messages'[i].id = state.messages'[j].id => i = j
       /\ (update # None /\ update' = None) =>
             Contents(state.messages') =
                Contents(state.messages)
                \o Contents(SubSeq(update[1].messages, Len(state.messages) + 1,
                                   Len(update[1].messages)))]_vars

\* both nodes' updates were merged: the architect's onto a non-empty log
C10_Witness ==
    /\ pc = "END"
    /\ HasRun("architect")
    /\ Len(state.messages) >= 6

\* C11: the ingestion node runs first and exactly once, the architect node
\* at most once and only after it, no node runs twice, and every run whose
\* node invocations return reaches END after at most two node executions.
C11_NoLoopsReachesEnd ==
    /\ [](/\ IsPrefix(executed, <<"code_ingestion", "architect">>)
          /\ pc \in {"architect", "END"} => executed # <<>>
          /\ pc = "END" => (update = None /\ Len(executed) \in {1, 2}))
    /\ [][pc = "END" => UNCHANGED vars]_vars
    /\ <>(pc = "END")

\* a run that ended after both nodes ran once
C11_Witness ==
    /\ pc = "END"
    /\ executed = <<"code_ingestion", "architect">>
    /\ state.completed

\* the file entries of the listings the Walker obtains: those of the root,
\* and those of a subdirectory whose own listing does not raise
ListedFiles ==
    {i \in DOMAIN repo.tree :
        /\ repo.tree[i].type = "file"
        /\ Root \notin repo.failing
        /\ repo.tree[i].parent \notin repo.failing}

RejectedByGlob(e) == should_exclude(e.path, state.ingestion_policy)

RejectedBySize(e) == e.size > state.ingestion_policy.max_file_mb * 1024 * 1024

RejectedAsTest(e) ==
    ~state.ingestion_policy.include_tests /\ classify_file(e.path) = Some("tests")

YieldedAt(e) == {j \in DOMAIN walked : walked[j].path = e.path}

\* the ingestion node has returned and the architect node has not run yet
\* (the architect node reads neither the repository nor the Walker)
IngestionReturned == HasRun("code_ingestion") /\ ~HasRun("architect")

\* C12: when the ingestion node has returned, a listed file entry has a
\* FileInfo in the yielded sequence exactly when the exclusion globs, the
\* size limit and the test suppression all let it pass; nothing else is
\* yielded, and the bundle of every state holds exactly the yielded files.
C12_YieldedIffNoGateRejects ==
    /\ state.repo_bundle # None => state.repo_bundle[1].files = walked
    /\ (IngestionReturned /\ repo.resolve = "ok") =>
        /\ \A i \in ListedFiles :
              LET e == repo.tree[i]
              IN  /\ YieldedAt(e) # {} <=>
                        ~(RejectedByGlob(e) \/ RejectedBySize(e) \/ RejectedAsTest(e))
                  /\ \A j \in YieldedAt(e) :
                        /\ walked[j].size_bytes = e.size
                        /\ walked[j].classification = classify_file(e.path)
        /\ \A j \in DOMAIN walked :
              \E i \in ListedFiles : YieldedAt(repo.tree[i]) = {j}

\* a walk that met a file the globs reject, a file over the size limit and
\* a file of exactly the size limit, which it yielded
C12_Witness ==
    /\ HasRun("code_ingestion")
    /\ state.repo_bundle # None
    /\ \E i, j, k \in ListedFiles :
          /\ RejectedByGlob(repo.tree[i])
          /\ RejectedBySize(repo.tree[j]) /\ ~RejectedByGlob(repo.tree[j])
          /\ repo.tree[k].size = state.ingestion_policy.max_file_mb * 1024 * 1024
          /\ YieldedAt(repo.tree[k]) # {}
    /\ Len(walked) = 1

PathsOf(entries) == [i \in DOMAIN entries |-> entries[i].path]

PassesGates(e) == ~(RejectedByGlob(e) \/ RejectedBySize(e) \/ RejectedAsTest(e))

\* the node went on to the analysis call after the walk
WalkReturned ==
    /\ \E i \in DOMAIN calls : calls[i].op = "list_files" /\ ~calls[i].raised
    /\ \E i \in DOMAIN calls : calls[i].op = "llm.ainvoke"

\* C13: a listing failure does not leave the Walker.  When the root listing
\* raises the walk yields nothing and the node carries on; when the listing
\* of a subdirectory raises, no file under it is yielded and the files of
\* the root that pass the gates are yielded, in listing order, those listed
\* after the subdirectory included.
C13_ListingFailureConfined ==
    (IngestionReturned /\ repo.resolve = "ok" /\ repo.failing # {}) =>
        /\ WalkReturned
        /\ Root \in repo.failing => walked = <<>>
        /\ DirT \in repo.failing =>
              PathsOf(walked) =
                 PathsOf(SelectSeq(repo.tree,
                                   LAMBDA e : /\ e.type = "file"
                                              /\ e.parent = Root
                                              /\ PassesGates(e)))

\* the listing of the subdirectory raised between two root files, and both
\* were yielded
C13_Witness ==
    /\ HasRun("code_ingestion")
    /\ repo.failing = {DirT}
    /\ Len(walked) = 2
    /\ \E i \in DOMAIN repo.tree :
          /\ repo.tree[i].type = "dir"
          /\ i > 1 /\ i < Len(repo.tree)
          /\ repo.tree[i + 1].path = walked[2].path
          /\ PassesGates(repo.tree[i + 2])

\* the architect update the node has returned, if it is not merged yet
PendingArchitectUpdate ==
    IF pc = "architect" /\ update # None THEN update ELSE None

\* C14: a bundle in the state is never changed by a later step, neither by
\* the architect node running nor by the merge of its update, and no
\* architect update carries a repo_bundle field.
C14_BundleNeverChanges ==
    /\ [](PendingArchitectUpdate # None => "repo_bundle" \notin DOMAIN update[1])
    /\ [][state.repo_bundle # None => state.repo_bundle' = state.repo_bundle]_vars

\* the update of a failed architect run was merged over a bundle with files
C14_Witness ==
    /\ pc = "END"
    /\ HasRun("architect")
    /\ state.error # None
    /\ state.repo_bundle # None
    /\ state.repo_bundle[1].files # <<>>

\* C15: run on a state whose repo_bundle is None, the architect node
\* returns an update whose error names the missing bundle and which has no
\* business_report, technical_report or completed field, and it makes no
\* completion call; the merged state has the error and no report.
C15_MissingBundleFailsLoudly ==
    (state.repo_bundle = None /\ HasRun("architect")) =>
        /\ calls = <<>>
        /\ PendingArchitectUpdate # None =>
              /\ "error" \in DOMAIN update[1]
              /\ ErrorMentions(update[1].error,
                               "Repository bundle not available. Run Code Ingestion Agent first.")
              /\ DOMAIN update[1] \cap
                    {"business_report", "technical_report", "completed"} = {}
        /\ PendingArchitectUpdate = None =>
              /\ ErrorMentions(state.error,
                               "Repository bundle not available. Run Code Ingestion Agent first.")
              /\ state.business_report = None
              /\ state.technical_report = None
              /\ ~state.completed

\* the architect node ran without a bundle and its update was merged
C15_Witness ==
    /\ state.repo_bundle = None
    /\ executed = <<"architect">>
    /\ pc = "END"
    /\ state.error # None

ArchitectCalls == SelectSeq(calls, LAMBDA c : c.op = "architect.llm.ainvoke")

\* both report calls returned text with no parseable JSON object
ReportCallsUnparseable ==
    /\ Len(ArchitectCalls) = 2
    /\ \A i \in 1..2 :
          ~ArchitectCalls[i].raised /\ NoJsonObject(ArchitectCalls[i].text)

\* C16: completed holds only together with both reports, a null error, and
\* a completed ingestion with its bundle; an architect update carries
\* completed only with both reports and a null error, and it does so when
\* neither report response holds a JSON object.
C16_CompletedImpliesReports ==
    /\ state.completed =>
          /\ state.business_report # None
          /\ state.technical_report # None
          /\ state.error = None
          /\ state.ingestion_status = "completed"
          /\ state.repo_bundle # None
    /\ (PendingArchitectUpdate # None /\ "completed" \in DOMAIN update[1]) =>
          /\ update[1].completed
          /\ {"business_report", "technical_report", "error"} \subseteq DOMAIN update[1]
          /\ update[1].business_report # None
          /\ update[1].technical_report # None
          /\ update[1].error = None
    /\ (ReportCallsUnparseable /\ PendingArchitectUpdate # None) =>
          "completed" \in DOMAIN update[1]
    /\ (ReportCallsUnparseable /\ pc = "END") => state.completed

\* a run completed on two report responses without JSON
C16_Witness ==
    /\ state.completed
    /\ pc = "END"
    /\ ReportCallsUnparseable

IsInfix(part, text) ==
    \E k \in 0..(Len(text) - Len(part)) : SubSeq(text, k + 1, k + Len(part)) = part

IngestionCalls == SelectSeq(calls, LAMBDA c : c.op # "architect.llm.ainvoke")

\* str(e) of the exceptions raised inside the ingestion node's try block:
\* by a capability call, or by RiskSeverity(...) while the bundle is built
RaisedInIngestion ==
    {IngestionCalls[i].text : i \in {j \in DOMAIN IngestionCalls : IngestionCalls[j].raised}}
    \cup
    {build_risks(parse_analysis(IngestionCalls[i].text)).message :
        i \in {j \in DOMAIN IngestionCalls :
                  /\ IngestionCalls[j].op = "llm.ainvoke"
                  /\ ~IngestionCalls[j].raised
                  /\ build_risks(parse_analysis(IngestionCalls[j].text)).raised}}

\* C17: whenever something raised inside the ingestion node, the node still
\* returned an update, with ingestion_status failed and an error that
\* contains the message of the exception; the merged state keeps both.
C17_ExceptionsBecomeFailedUpdate ==
    /\ (HasRun("code_ingestion") /\ pc = "code_ingestion") => update # None
    /\ \A message \in RaisedInIngestion :
          /\ message # <<>>
          /\ PendingIngestionUpdate # None =>
                /\ update[1].ingestion_status = "failed"
                /\ update[1].error # None
                /\ IsInfix(message, update[1].error[1])
                /\ "repo_bundle" \notin DOMAIN update[1]
          /\ IngestionMerged =>
                /\ state.ingestion_status = "failed"
                /\ state.error # None
                /\ IsInfix(message, state.error[1])

\* RiskSeverity(...) raised ValueError after the walk and the analysis call
\* had returned, and the failed update was merged
C17_Witness ==
    /\ pc = "END"
    /\ state.ingestion_status = "failed"
    /\ RaisedInIngestion # {}
    /\ \A i \in DOMAIN calls : ~calls[i].raised
    /\ walked # <<>>

\* the bundle the ingestion node returned, pending or merged
ReturnedBundle ==
    IF PendingIngestionUpdate # None
    THEN DictGet(update[1], "repo_bundle", None)
    ELSE state.repo_bundle

RootManifest(filename) ==
    SelectSeq(repo.tree, LAMBDA e : e.path = filename /\ e.parent = Root)

\* the records of one manifest of the root, none when it is absent
RecordsOf(pkg_manager, filename) ==
    IF RootManifest(filename) = <<>> THEN <<>>
    ELSE parse_dependencies(RootManifest(filename)[1].content, pkg_manager, filename)

\* C18: when every fetch of an existing file succeeds, the dependencies of
\* the bundle are the records of package.json followed by those of
\* requirements.txt, each present exactly when the manifest exists at the
\* root, whichever of the other candidates are absent, and equal names from
\* two manifests are both kept.
C18_AbsentManifestsSkipped ==
    (IngestionReturned /\ ReturnedBundle # None /\ repo.fetch = "ok") =>
        ReturnedBundle[1].dependencies =
            RecordsOf("npm", PackageJson) \o RecordsOf("pip", RequirementsTxt)

\* no npm manifest exists, and the records of requirements.txt, probed
\* after the absent npm candidates, are in the bundle
C18_Witness ==
    /\ IngestionReturned
    /\ ReturnedBundle # None
    /\ repo.fetch = "ok"
    /\ RootManifest(PackageJson) = <<>>
    /\ Len(ReturnedBundle[1].dependencies) = 2
    /\ ReturnedBundle[1].dependencies[1].package_manager = "pip"

\* C19: when a fetch of an existing dependency file fails with something
\* other than not-found, discover_dependencies raises, so the ingestion
\* node returns failed and no bundle.
C19_FetchFailurePropagates ==
    (IngestionReturned /\ repo.resolve = "ok" /\ repo.fetch # "ok") =>
        /\ ReturnedBundle = None
        /\ PendingIngestionUpdate # None => update[1].ingestion_status = "failed"
        /\ IngestionMerged => state.ingestion_status = "failed"

CategoryOrder == <<"code", "config", "docs", "iac", "cicd", "tests">>

PatternsOf(category) ==
    FILE_CLASSIFICATIONS[CHOOSE k \in DOMAIN FILE_CLASSIFICATIONS :
                            FILE_CLASSIFICATIONS[k].classification = category].patterns

CategoryMatches(category, path) ==
    \E i \in DOMAIN PatternsOf(category) :
       \/ fnmatch(path, PatternsOf(category)[i])
       \/ fnmatch(LastSegment(path), PatternsOf(category)[i])

FirstCategory(path) ==
    LET hit == {k \in DOMAIN CategoryOrder : CategoryMatches(CategoryOrder[k], path)}
    IN  IF hit = {} THEN None
        ELSE Some(CategoryOrder[CHOOSE k \in hit : \A j \in hit : k <= j])

\* C20: every call of classify_file returns the first category, in the
\* order code, config, docs, iac, cicd, tests, one of whose patterns matches
\* the path or its last segment, None when there is none, and two calls on
\* the same path return the same value.
C20_FirstMatchingCategory ==
    /\ [k \in DOMAIN FILE_CLASSIFICATIONS |-> FILE_CLASSIFICATIONS[k].classification]
          = CategoryOrder
    /\ \A i \in DOMAIN calls :
          calls[i].op = "classify_file" =>
             /\ calls[i].result = FirstCategory(calls[i].text)
             /\ \A j \in DOMAIN calls :
                   (calls[j].op = "classify_file" /\ calls[j].text = calls[i].text)
                      => calls[j].result = calls[i].result

\* a path only the last segment matches was classified, after a path that
\* patterns of an earlier and a later category both match
C20_Witness ==
    /\ Len(calls) = 2
    /\ calls[1].op = "classify_file"
    /\ CategoryMatches("iac", calls[1].text)
    /\ calls[1].result = Some("config")
    /\ calls[2].result = Some("docs")
    /\ ~(\E i \in DOMAIN PatternsOf("docs") :
            fnmatch(calls[2].text, PatternsOf("docs")[i]))


RedactCalls == {i \in 1..Len(calls) : calls[i].op = "redact_secrets"}


\* the start positions of the embedded values AKIA + 16 characters of tail
AwsKeysAt(text, tail) ==
    {p \in 1..(Len(text) - 19) :
        /\ SubSeq(text, p, p + 3) = <<"A","K","I","A">>
        /\ \A j \in 4..19 : text[p + j] \in tail}

AwsKeyValue(text, tail) ==
    LET p == CHOOSE q \in AwsKeysAt(text, tail) : TRUE IN SubSeq(text, p, p + 19)

\* C21: redaction is idempotent on its own output: redact_secrets applied to
\* the text a call of redact_secrets returned returns that text unchanged
\* with a count of 0, and no call returns a negative count.
C21_RedactionIdempotent ==
    \A i \in RedactCalls :
        /\ calls[i].result.redaction_count >= 0
        /\ (i > 1 /\ calls[i].text = calls[i - 1].result.result)
              => /\ calls[i].result.result = calls[i].text
                 /\ calls[i].result.redaction_count = 0

\* C22 as stated: for a text with exactly one embedded value AKIA + 16
\* alphanumeric characters, redact_secrets returns a count of at least 1 and
\* a text that does not contain the value.
C22_AlphanumericKeyRedacted ==
    \A i \in RedactCalls :
        Cardinality(AwsKeysAt(calls[i].text, AlphaNum)) = 1
           => /\ calls[i].result.redaction_count >= 1
              /\ ~IsInfix(AwsKeyValue(calls[i].text, AlphaNum),
                          calls[i].result.result)

\* C22 amended: for a text with exactly one embedded value AKIA + 16 digits
\* or upper-case letters, redact_secrets returns a count of at least 1 and a
\* text that does not contain the value.
C22_AwsKeyRedacted ==
    \A i \in RedactCalls :
        Cardinality(AwsKeysAt(calls[i].text, Digit \union Upper)) = 1
           => /\ calls[i].result.redaction_count >= 1
              /\ ~IsInfix(AwsKeyValue(calls[i].text, Digit \union Upper),
                          calls[i].result.result)

\* a content that embeds one access key id after other text was redacted
C22_Witness ==
    \E i \in RedactCalls :
        /\ Cardinality(AwsKeysAt(calls[i].text, Digit \union Upper)) = 1
        /\ Len(calls[i].text) > 20
        /\ IsInfix(<<"[","R","E","D","A","C","T","E","D","_","A","W","S","_","A","C","C","E","S","S","_","K","E","Y","]">>, calls[i].result.result)


\* C23: GET and DELETE of a job id that is not registered answer 404, and a
\* job id that was issued and is no longer registered stays unregistered in
\* every later step, whatever its background task does.
C23_DeletedJobStaysGone ==
    [][/\ \A job_id \in JobIds :
             (/\ job_id \notin DOMAIN jobs
              /\ (get_analysis_status(job_id) \/ delete_job(job_id)))
                => response'[1].status_code = 404
       /\ \A job_id \in DOMAIN tasks :
             job_id \notin DOMAIN jobs => job_id \notin DOMAIN jobs']_vars

\* a job deleted while its task is inside graph.astream, and a GET of it
\* answered 404
C23_Witness ==
    \E job_id \in DOMAIN tasks :
        /\ job_id \notin DOMAIN jobs
        /\ tasks[job_id].pc \in {"astream", "raised"}
        /\ tasks[job_id].final_state # None
        /\ response = Some(Response("GET /analyze/{job_id}", job_id, 404,
                                    Some("Job not found")))


\* the jobs whose task ran to its end and that are still registered
FinishedJobs ==
    {job_id \in DOMAIN tasks \cap DOMAIN jobs :
        tasks[job_id].pc \in {"returned", "responded"}}

\* C29: a job whose workflow ended with a non-null error finishes with
\* status failed and a non-null job error, so that a job with status
\* completed had a workflow that ended with error null.
C29_WorkflowFailureFailsJob ==
    \A job_id \in FinishedJobs :
        /\ tasks[job_id].s.error # None
              => /\ jobs[job_id].status = "failed"
                 /\ jobs[job_id].error # None
        /\ jobs[job_id].status = "completed" => tasks[job_id].s.error = None

\* C30: whenever a job is deleted while its task runs, the task ends without
\* an unhandled error: no task ever ends by raising.
C30_TaskNeverRaises ==
    \A job_id \in DOMAIN tasks : tasks[job_id].pc # "raised"


\* the listed file entries a gate of the Walker rejected
RejectedFiles == {i \in ListedFiles : ~PassesGates(repo.tree[i])}

\* C24: the files_excluded counter of the bundle is the number of file
\* entries the Walker rejected during the run, so it is greater than 0
\* whenever a file was rejected.
C24_ExcludedCounterCounts ==
    (IngestionReturned /\ repo.resolve = "ok" /\ state.repo_bundle # None) =>
        state.repo_bundle[1].files_excluded = Cardinality(RejectedFiles)

\* a tests pattern ends with the extension of a code pattern "*" + extension
ShadowedByCode(pattern) ==
    \E i \in DOMAIN PatternsOf("code") :
        /\ Head(PatternsOf("code")[i]) = "*"
        /\ "*" \notin Range(Tail(PatternsOf("code")[i]))
        /\ EndsWith(pattern, Tail(PatternsOf("code")[i]))

TechnicalCallFailed ==
    /\ Len(ArchitectCalls) = 2
    /\ ~ArchitectCalls[1].raised
    /\ ArchitectCalls[2].raised

\* C26: business_report is null exactly when technical_report is null in
\* every state; an architect update carries both reports or neither; and
\* when the business call returns and the technical call raises, the update
\* carries neither report and no completed but a non-null error, so that
\* completed stays false in the state.
C26_ReportsSetTogether ==
    /\ state.business_report = None <=> state.technical_report = None
    /\ PendingArchitectUpdate # None =>
          ("business_report" \in DOMAIN update[1]
              <=> "technical_report" \in DOMAIN update[1])
    /\ TechnicalCallFailed =>
          /\ ~state.completed
          /\ PendingArchitectUpdate # None =>
                /\ DOMAIN update[1] \cap
                      {"business_report", "technical_report", "completed"} = {}
                /\ "error" \in DOMAIN update[1]
                /\ update[1].error # None
          /\ PendingArchitectUpdate = None =>
                /\ state.error # None
                /\ state.business_report = None

\* the technical call raised after the business call returned a report, and
\* the failure was merged
C26_Witness ==
    /\ TechnicalCallFailed
    /\ Contains(ArchitectCalls[1].text, "business")
    /\ pc = "END"
    /\ state.error # None
    /\ ~state.completed

AnalysisCallReturned ==
    \E i \in DOMAIN calls : calls[i].op = "llm.ainvoke" /\ ~calls[i].raised

\* C27: whenever the analysis call returns a text, the ingestion node
\* returns completed with a non-null bundle.
C27_ReturnedTextCompletes ==
    AnalysisCallReturned =>
        /\ PendingIngestionUpdate # None =>
              /\ update[1].ingestion_status = "completed"
              /\ "repo_bundle" \in DOMAIN update[1]
              /\ update[1].repo_bundle # None
        /\ IngestionMerged =>
              /\ state.ingestion_status = "completed"
              /\ state.repo_bundle # None

\* C28: when the repository resolves, the root listing fails and the
\* analysis call returns, the ingestion node returns completed with a bundle
\* of zero files and the conditional edge routes to the architect node.
C28_RootListingFailureCompletes ==
    (repo.resolve = "ok" /\ Root \in repo.failing /\ AnalysisCallReturned) =>
        /\ PendingIngestionUpdate # None =>
              /\ update[1].ingestion_status = "completed"
              /\ "repo_bundle" \in DOMAIN update[1]
              /\ update[1].repo_bundle # None
              /\ update[1].repo_bundle[1].files = <<>>
        /\ IngestionMerged =>
              /\ state.ingestion_status = "completed"
              /\ state.repo_bundle # None
              /\ state.repo_bundle[1].files = <<>>
              /\ route = "architect"
              /\ pc \in {"architect", "END"}

=============================================================================
